---- MODULE Spec2Model ----
(***************************************************************************)
(* A model of rtic-fridge: the 1-Wire device search (onewire/mod.rs), the  *)
(* boot-time enumeration (main.rs), the temperature control loop           *)
(* (temp_controller.rs), the storage task and its channels                 *)
(* (main.rs, storage/mod.rs) and the console's resolution and watch        *)
(* commands (terminal.rs).                                                 *)
(*                                                                         *)
(* Spec     : a harness that calls DeviceSearch::search() again and again  *)
(*            on one DeviceSearch over a fixed device set.                 *)
(* FairSpec : Spec, with the harness calling search() for ever.            *)
(* SpecApp  : the application from init on: the boot-time enumeration,     *)
(*            temp_controller, storage and the console commands under the  *)
(*            priorities of main.rs, with a clock and a faulty bus.        *)
(* SpecWire : OneWire's reset, write_bit and read_bit statement by         *)
(*            statement on the pin with interrupts in between, and         *)
(*            write_byte, read_byte and send_command by the operations     *)
(*            they make on the bus.                                        *)
(* SpecSched: the tasks and the USART2 handler on the one core, under the  *)
(*            priorities and resource ceilings of the rtic::app.           *)
(* FairSpecSched : SpecSched with a bounded load, the core running what is *)
(*            due.                                                         *)
(* SpecRound: one search() round by round, over the same device sets.      *)
(* SpecSensor : the Ds18b20 driver byte by byte against a device that      *)
(*            keeps a scratchpad and sends it with its CRC-8.              *)
(* SpecConsole : the console input buffer between usart2 and terminal.     *)
(* FairSpecConsole : SpecConsole, terminal running whenever it can.        *)
(* SpecPid  : PidController::run and the cooler pin, cycle by cycle.       *)
(* SpecStore : the storage task poll by poll between the temperature and   *)
(*            event channels, over Storage<N, E> for several N.            *)
(* FairSpecStore : SpecStore for the application's Storage<100, 16>, the   *)
(*            storage task running whenever it can.                        *)
(***************************************************************************)
EXTENDS Integers, Sequences, FiniteSets, TLC

(***************************************************************************)
(* Bounds of the model.                                                    *)
(***************************************************************************)
\* Largest number of devices on the simulated bus.
MaxDevices == 3
\* The harness counts the calls of one enumeration pass up to here.
MaxCalls == 5

(***************************************************************************)
(* Bytes and bits.  A u8 is a number in 0..255; a single-bit mask is a     *)
(* power of two.  A u64 address is kept as its 8 little-endian bytes       *)
(* (u64::from_le_bytes / to_le_bytes are a bijection between the two, and  *)
(* a 64-bit number does not fit the checker's integers).                   *)
(***************************************************************************)
Pow2(k) == CASE k = 0 -> 1 [] k = 1 -> 2 [] k = 2 -> 4 [] k = 3 -> 8
             [] k = 4 -> 16 [] k = 5 -> 32 [] k = 6 -> 64 [] k = 7 -> 128

\* (byte & mask) > 0 for a single-bit mask
MaskBit(byte, mask) == (byte \div mask) % 2 = 1

\* byte |= mask
OrMask(byte, mask) == IF MaskBit(byte, mask) THEN byte ELSE byte + mask

\* byte &= !mask
ClearMask(byte, mask) == IF MaskBit(byte, mask) THEN byte - mask ELSE byte

\* mask <<= 1 on a u8: the bit shifted out of bit 7 is lost
ShlU8(mask) == (mask * 2) % 256

\* F applied to the value of val, val being evaluated once.
Bind(val, F(_)) == CHOOSE out \in {F(x) : x \in {val}} : TRUE

\* The bit of an address at search position n (1..64): bit ((n-1) mod 8) of
\* byte ((n-1) div 8), bytes counted from the least-significant one.
AddressBit(addr, n) == MaskBit(addr[((n - 1) \div 8) + 1], Pow2((n - 1) % 8))

\* Address::family_code
FamilyCode(addr) == addr[1]

(***************************************************************************)
(* The simulated bus: a fixed set of devices, and a line that may be       *)
(* stuck low.  The devices are drawn from a pool that has branch points in *)
(* the family byte (positions 4, 5, 6), in the second byte (position 9)    *)
(* and in the last bit (position 64), and one family code of zero.         *)
(***************************************************************************)
WATER_TEMP_ADDR == <<40, 96, 251, 131, 15, 0, 0, 5>>

PoolAddress(family, second, last) == <<family, second, 251, 131, 15, 0, 0, last>>

AddressPool ==
    {PoolAddress(0, 96, 5), PoolAddress(16, 96, 5), PoolAddress(16, 97, 133),
     PoolAddress(40, 96, 5), PoolAddress(40, 96, 133), PoolAddress(40, 97, 133)}

DeviceSets == {D \in SUBSET AddressPool : Cardinality(D) <= MaxDevices}

\* A read slot samples the line high only when no participating device pulls
\* it low: the first probe bit is the AND of the devices' bits, the second
\* the AND of their complements.  With no participant both read as 1.
BusIdBit(part, n) == \A a \in part : AddressBit(a, n)

BusCmpIdBit(part, n) == \A a \in part : ~AddressBit(a, n)

\* After the direction bit is written, only the devices whose bit equals it
\* stay in the search.
BusAfterWrite(part, n, bit) == {a \in part : AddressBit(a, n) = bit}

\* The devices that answer at position n.  drop = 0: all participants; drop = d
\* in 1..64: the devices stop answering from position d on (pulled off the
\* bus during this call).
BusParticipants(part, n, drop) == IF drop # 0 /\ n >= drop THEN {} ELSE part

DropPositions == {0, 6, 64}

(***************************************************************************)
(* OneWire::reset.                                                         *)
(***************************************************************************)
RESET_RETRIES == 125

\* The samples the wait for a high line may take: one, and one more after
\* each of the retries.
ResetSamples == 0..RESET_RETRIES

\* while self.pin.is_low()? { if retries == 0 { return Err(BusNotHigh) } ... }:
\* BusNotHigh when every one of the samples reads low, "high" at the first
\* sample that reads high.  lineLow[i] is the level at the i-th sample.
ResetPoll(lineLow) ==
    IF \A i \in ResetSamples : lineLow[i] THEN "BusNotHigh" ELSE "high"

\* The line as the wait samples it: low throughout when stuck, else high.
LineSamples(stuckLow) == [i \in ResetSamples |-> stuckLow]

\* reset(): "Ok" when the sample after the reset pulse is low (a device
\* answers with a presence pulse), UnexpectedResponse when it is high.
Reset(stuckLow, present) ==
    IF ResetPoll(LineSamples(stuckLow)) = "BusNotHigh" THEN "BusNotHigh"
    ELSE IF present THEN "Ok" ELSE "UnexpectedResponse"

(***************************************************************************)
(* DeviceSearch.                                                           *)
(***************************************************************************)
VARIABLES
    devices,                 \* the addresses of the devices on the bus
    lineStuckLow,            \* the line never reads high
    last_discrepancy,        \* DeviceSearch.last_discrepancy
    last_family_discrepancy, \* DeviceSearch.last_family_discrepancy
    last_device_flag,        \* DeviceSearch.last_device_flag
    rom_no,                  \* DeviceSearch.rom_no
    result,                  \* what the last search() returned
    yielded,                 \* the addresses returned in this pass, in order
    finished,                \* the pass that ended last: its addresses, and
                             \* whether every device answered throughout
    passSteady,              \* every device answered in every call of this pass
    passCalls,               \* calls made in this pass (saturates at MaxCalls)
    callTick,                \* flips at every call
    restarted,               \* search() has returned Ok(None) at least once
    fresh,                   \* a DeviceSearch created when search() last
                             \* returned Ok(None), given the same calls
    freshResult,             \* what the last search() on it returned
    walk                     \* the last call: the position from which no
                             \* device answered (0: all answered), and what
                             \* its loop did on the bus

searchVars == <<last_discrepancy, last_family_discrepancy, last_device_flag,
                rom_no, result, yielded, finished, passSteady, passCalls,
                callTick, restarted, fresh, freshResult, walk>>

(***************************************************************************)
(* The application: init, the tasks, their channels and shared resources.  *)
(***************************************************************************)
VARIABLES
    appPc,       \* init: "off" (search harness), "boot", "running", "panicked"
    clock,       \* Mono::now(), in milliseconds
    resolution,  \* Shared.resolution
    cooler,      \* the cooler pin is high
    devConfig,   \* the configuration byte in the sensor's scratchpad
    devRaw,      \* the temperature word in the sensor's scratchpad
    ctlPc,       \* temp_controller: where the task stands
    now,         \* temp_controller: now
    last_res,    \* temp_controller: last_res ("None" or a resolution)
    wake,        \* the instant Mono::delay in measure() waits for
    pending,     \* the value a suspended send().await holds
    tempCh,      \* channel Temperature, temp_controller -> storage
    eventCh,     \* channel StoredEvent, temp_controller -> storage
    consoleCh,   \* channel StoredTemp, Storage::write -> watch_temps
    temps,       \* Storage.temps
    events,      \* Storage.events
    watching,    \* the terminal task is inside watch_temps
    t0,          \* the instant temp_controller read before its loop
    cycle,       \* cycles temp_controller has completed
    cycErrors,   \* errors set_resolution and measure returned this cycle
    cycEvents,   \* events temp_controller sent this cycle
    cyc,         \* temp_controller this cycle: measure() calls, whether one
                 \* failed, writes of the cooler pin, temperatures sent
    setHist,     \* set_resolution: outcome of the last call, and what the
                 \* start of the current cycle saw and did
    faults,      \* bus transactions of the control loop that met a fault
    busTime      \* milliseconds the bus work of one measure() takes

appVars == <<appPc, clock, resolution, cooler, devConfig, devRaw, ctlPc, now, last_res,
             wake, pending, tempCh, eventCh, consoleCh, temps, events,
             watching, t0, cycle, cycErrors, cycEvents, cyc, setHist, faults,
             busTime>>

(***************************************************************************)
(* The bus operations of OneWire, statement by statement on the pin.       *)
(***************************************************************************)
VARIABLES
    wOp,         \* the operation called: "none", "reset", "write_bit",
                 \* "read_bit", "write_byte", "read_byte", "send_command"
    wArg,        \* its argument: the bit, the byte or the command byte
    wTarget,     \* send_command: <<>> for None, <<a>> for Some(a), a being
                 \* the u64 as four 16-bit words, most significant first
    wLine,       \* read_byte: what the 8 read slots read, first slot first
    wValue,      \* read_byte: the byte returned
    wPc,         \* the statement of it that runs next
    wDone,       \* it has returned
    wRet,        \* what it returned
    retries,     \* reset: retries
    samples,     \* reset: times the wait loop has read the pin
    sawHigh,     \* reset: the wait loop has read the pin high
    sampled,     \* what the sampling statement read: "low" or "high"
    delayed,     \* microseconds of delay_us so far in this bit-level call
    pinLog,      \* the statements run on the pin in this bit-level call from
                 \* the first drive of the pin on
    masked,      \* interrupts are disabled
    irqs,        \* interrupt handlers that ran during this call
    intrusions,  \* of these, the ones that ran between the pull-down and the
                 \* sample of read_bit
    busLog       \* the operations a byte-level call made on the bus

wireVars == <<wOp, wArg, wTarget, wLine, wValue, wPc, wDone, wRet, retries,
              samples, sawHigh, sampled, delayed, pinLog, masked, irqs,
              intrusions, busLog>>

\* No bus operation has been called.
WireIdle ==
    /\ wOp = "none"
    /\ wArg = 0
    /\ wTarget = <<>>
    /\ wLine = <<>>
    /\ wValue = 0
    /\ wPc = 1
    /\ wDone = TRUE
    /\ wRet = "none"
    /\ retries = 0
    /\ samples = 0
    /\ sawHigh = FALSE
    /\ sampled = "none"
    /\ delayed = 0
    /\ pinLog = <<>>
    /\ masked = FALSE
    /\ irqs = 0
    /\ intrusions = 0
    /\ busLog = <<>>

(***************************************************************************)
(* The activities of the application on the one core: the tasks of the     *)
(* rtic::app and the USART2 handler, under priorities and resource locks.  *)
(***************************************************************************)
VARIABLES
    sPc,         \* per activity, the statement it runs next
    sStatus,     \* per activity: "idle" (not spawned or pended, or returned),
                 \* "waiting" (at an await), "ready" (pended or woken, not yet
                 \* on the core), "active" (started and not yet at an await:
                 \* running or preempted)
    sStack,      \* the active activities, the running one last
    sHeld,       \* the pairs <<activity, resource>> of the lock closures
                 \* that are open
    sLines,      \* the complete lines in the console buffer
    burst,       \* interrupts and wake-ups since the core was last idle,
                 \* counted up to MaxBurst
    busOpen,     \* temp_controller is inside a bus transaction
    foreign      \* an activity other than temp_controller has run while a
                 \* bus transaction was open (0 or 1)

schedVars == <<sPc, sStatus, sStack, sHeld, sLines, burst, busOpen,
              foreign>>

Acts == {"temp_controller", "terminal", "storage", "usart2", "blinky"}

\* Nothing is scheduled.
SchedIdle ==
    /\ sPc = [a \in Acts |-> 1]
    /\ sStatus = [a \in Acts |-> "idle"]
    /\ sStack = <<>>
    /\ sHeld = {}
    /\ sLines = 0
    /\ burst = 0
    /\ busOpen = FALSE
    /\ foreign = 0

(***************************************************************************)
(* search() round by round.                                                *)
(***************************************************************************)
VARIABLES
    lpIn,        \* a call of search() is inside its loop or about to leave it
    lp,          \* the locals of the call: the loop state
    lpDrop,      \* the position from which no device answers in this call
    lpLast,      \* the last round of the loop: its position, the probe bits,
                 \* the bit held by rom_no before and after it, the bit
                 \* handed to write_bit, last_zero before and after it
    lpBus        \* the operations the call has made on the bus, in order

roundVars == <<lpIn, lp, lpDrop, lpLast, lpBus>>

NoRound ==
    [pos |-> 0, id |-> FALSE, cmp |-> FALSE, prev |-> FALSE, stored |-> FALSE,
     written |-> FALSE, zero_before |-> 0, last_zero |-> 0, broke |-> FALSE]

NoLoop ==
    [id_bit_number |-> 1, last_zero |-> 0, last_family_discrepancy |-> 0,
     rom_no |-> <<0, 0, 0, 0, 0, 0, 0, 0>>, rom_byte_number |-> 0,
     rom_byte_mask |-> 1, part |-> {}, broke |-> FALSE, reads |-> 0,
     writes |-> 0, wrote |-> FALSE]

\* No call has entered its loop.
RoundIdle ==
    /\ lpIn = FALSE
    /\ lp = NoLoop
    /\ lpDrop = 0
    /\ lpLast = NoRound
    /\ lpBus = <<>>

(***************************************************************************)
(* The sensor driver (ds18b20.rs) against a device that keeps a            *)
(* scratchpad.                                                             *)
(***************************************************************************)
VARIABLES
    pad,         \* the device: the 8 bytes of its scratchpad before the CRC
    padNext,     \* the device: <<>>, or the two temperature bytes of the
                 \* conversion in progress
    drvOp,       \* the driver operation called last
    drvArg,      \* its Resolution argument, or "None"
    drvRet,      \* what it returned: [ok, err, val]
    drvLog,      \* the transactions and waits of the call, in order
    drvWait,     \* measure() is suspended in Mono::delay
    drvPrev,     \* the resolution the call before set, when it was a
                 \* set_resolution that returned Ok; or "None"
    cfgProbe     \* a byte and what from_config_register makes of it

sensorVars ==
    <<pad, padNext, drvOp, drvArg, drvRet, drvLog, drvWait, drvPrev, cfgProbe>>

\* No driver operation has been called.
SensorIdle ==
    /\ pad = <<0, 0, 0, 0, 0, 0, 0, 0>>
    /\ padNext = <<>>
    /\ drvOp = "none"
    /\ drvArg = "None"
    /\ drvRet = [ok |-> TRUE, err |-> "Ok", val |-> 0]
    /\ drvLog = <<>>
    /\ drvWait = FALSE
    /\ drvPrev = "None"
    /\ cfgProbe = [reg |-> 0, res |-> "None"]

(***************************************************************************)
(* The console input: usart2 fills the buffer, terminal empties it.        *)
(***************************************************************************)
VARIABLES
    buffer,      \* Shared.buffer: the bytes received and not yet consumed
    conPc,       \* terminal: "idle" (no instance), "spawned", "running" (in
                 \* its loop) or "watching" (suspended in watch_temps)
    dropped,     \* bytes usart2 could not push into the buffer
    newlines,    \* newline bytes received so far
    halted,      \* a panic has stopped the system
    linesRead    \* lines get_line has taken from the buffer

consoleVars == <<buffer, conPc, dropped, newlines, halted, linesRead>>

\* Nothing has been received.
ConsoleIdle ==
    /\ buffer = <<>>
    /\ conPc = "idle"
    /\ dropped = 0
    /\ newlines = 0
    /\ halted = FALSE
    /\ linesRead = 0

(***************************************************************************)
(* The controller: PidController and the cooler pin it drives.             *)
(***************************************************************************)
VARIABLES
    integral_term,     \* Pid: the integral term, in 1/16 degree
    prev_measurement,  \* Pid: <<the measurement before>>, or <<>> for None
    pidTemp,           \* <<the temperature of the last cycle>>, or <<>>
    pidOut,            \* what PidController::run returned last (a u8)
    onFrom,            \* the least output for which the cooler pin is set high
    pinHigh            \* the cooler pin

pidVars == <<integral_term, prev_measurement, pidTemp, pidOut, onFrom, pinHigh>>

\* The controller has not run.
PidIdle ==
    /\ integral_term = 0
    /\ prev_measurement = <<>>
    /\ pidTemp = <<>>
    /\ pidOut = 0
    /\ onFrom = 1
    /\ pinHigh = FALSE

(***************************************************************************)
(* The storage task between its two channels and the history it writes.    *)
(***************************************************************************)
VARIABLES
    tCh,         \* the Temperature channel (tx1, rx1): what it holds
    eCh,         \* the StoredEvent channel (e_tx, e_rx)
    cCh,         \* the StoredTemp channel (tx2, rx2) to the console
    hN,          \* N of Storage<N, E>; 0 before Storage::new
    hTemps,      \* Storage.temps
    hEvents,     \* Storage.events
    stPc,        \* storage: "suspended", "poll_t", "poll_e", "write_t" or
                 \* "write_e"
    sGot,        \* storage: <<what try_select returned>>, or <<>>
    sPend,       \* storage: its executor is pending (it will be polled)
    tWaker,      \* the temperature channel holds the receiver's waker
    eWaker,      \* the event channel holds the receiver's waker
    sndWait,     \* temp_controller: <<the message a suspended send holds>>
    sndReady,    \* temp_controller: the suspended send has been woken
    tSent,       \* the temperatures tx.send has accepted, in order
    eSent,       \* the events e_tx.send has accepted, in order
    tWritten,    \* the calls of Storage::write: temperature, instant and
                 \* whether the console channel was full
    eWritten,    \* the events passed to Storage::write_event, in order
    sClock       \* Mono::now(), in milliseconds

storeVars == <<tCh, eCh, cCh, hN, hTemps, hEvents, stPc, sGot, sPend, tWaker,
               eWaker, sndWait, sndReady, tSent, eSent, tWritten, eWritten,
               sClock>>

\* Nothing has been sent and storage has not been spawned.
StoreIdle ==
    /\ tCh = <<>> /\ eCh = <<>> /\ cCh = <<>>
    /\ hN = 0
    /\ hTemps = <<>> /\ hEvents = <<>>
    /\ stPc = "suspended"
    /\ sGot = <<>>
    /\ sPend = FALSE
    /\ tWaker = FALSE /\ eWaker = FALSE
    /\ sndWait = <<>>
    /\ sndReady = FALSE
    /\ tSent = <<>> /\ eSent = <<>>
    /\ tWritten = <<>> /\ eWritten = <<>>
    /\ sClock = 0

benchVars ==
    <<wireVars, schedVars, roundVars, sensorVars, consoleVars, pidVars,
      storeVars>>

BenchIdle ==
    /\ WireIdle /\ SchedIdle /\ RoundIdle /\ SensorIdle /\ ConsoleIdle /\ PidIdle
    /\ StoreIdle

vars == <<devices, lineStuckLow, searchVars, appVars, benchVars>>

ZeroRom == <<0, 0, 0, 0, 0, 0, 0, 0>>

\* OneWire::devices: the DeviceSearch it creates
NewDeviceSearch ==
    [last_discrepancy |-> 0, last_family_discrepancy |-> 0,
     last_device_flag |-> FALSE, rom_no |-> ZeroRom]

\* The DeviceSearch held in the variables
Cursor ==
    [last_discrepancy |-> last_discrepancy,
     last_family_discrepancy |-> last_family_discrepancy,
     last_device_flag |-> last_device_flag, rom_no |-> rom_no]

\* Variant: the bit of the previous pass is replayed at last_discrepancy too.
BranchDirectionReplaysAtLast(id_bit_number, last_disc, rom_bit) ==
    IF id_bit_number <= last_disc THEN rom_bit ELSE FALSE

\* Variant: the 1 branch is never taken.
BranchDirectionNeverOne(id_bit_number, last_disc, rom_bit) ==
    IF id_bit_number < last_disc THEN rom_bit ELSE FALSE

\* The direction at a branch point (both probe bits 0): the bit of the
\* previous pass below last_discrepancy, 1 at it, 0 above it.
BranchDirection(id_bit_number, last_disc, rom_bit) ==
    IF id_bit_number < last_disc THEN rom_bit ELSE id_bit_number = last_disc

\* Variant: with differing probe bits the second one is adopted.
SearchDirectionAdoptsComplement(id_bit, cmp_id_bit, id_bit_number, last_disc, rom_bit) ==
    IF id_bit # cmp_id_bit THEN cmp_id_bit
    ELSE BranchDirection(id_bit_number, last_disc, rom_bit)

\* search_direction
SearchDirection(id_bit, cmp_id_bit, id_bit_number, last_disc, rom_bit) ==
    IF id_bit # cmp_id_bit THEN id_bit
    ELSE BranchDirection(id_bit_number, last_disc, rom_bit)

\* The end of a round, the direction sd chosen: record the bit in rom_no,
\* write it to the bus, move to the next bit.  zero: a branch point where 0
\* was picked, recorded in last_zero (and, in the family byte, in
\* last_family_discrepancy).
SearchAdvance(s, sd, zero, part) ==
    [id_bit_number |-> s.id_bit_number + 1,
     last_zero |-> IF zero THEN s.id_bit_number ELSE s.last_zero,
     last_family_discrepancy |->
         IF zero /\ s.id_bit_number < 9 THEN s.id_bit_number
         ELSE s.last_family_discrepancy,
     rom_no |-> [s.rom_no EXCEPT ![s.rom_byte_number + 1] =
                    IF sd THEN OrMask(@, s.rom_byte_mask)
                    ELSE ClearMask(@, s.rom_byte_mask)],
     rom_byte_number |-> IF ShlU8(s.rom_byte_mask) = 0 THEN s.rom_byte_number + 1
                         ELSE s.rom_byte_number,
     rom_byte_mask |-> IF ShlU8(s.rom_byte_mask) = 0 THEN 1
                       ELSE ShlU8(s.rom_byte_mask),
     part |-> BusAfterWrite(part, s.id_bit_number, sd),
     broke |-> FALSE,
     reads |-> s.reads,
     writes |-> s.writes + 1,
     wrote |-> sd]

\* if !sd { last_zero = id_bit_number; ... } inside the branch of equal
\* probe bits
PickedZeroAtEveryBranch(id_bit, cmp_id_bit, sd) == id_bit = cmp_id_bit

PickedZero(id_bit, cmp_id_bit, sd) == (id_bit = cmp_id_bit) /\ ~sd

\* One round of the loop after the two probe bits were read and found not
\* both 1: choose the direction, then SearchAdvance.
SearchStep(s, id_bit, cmp_id_bit, last_disc, part) ==
    Bind(SearchDirection(id_bit, cmp_id_bit, s.id_bit_number, last_disc,
                         MaskBit(s.rom_no[s.rom_byte_number + 1], s.rom_byte_mask)),
         LAMBDA sd :
             SearchAdvance(s, sd, PickedZero(id_bit, cmp_id_bit, sd), part))

\* Variant: the loop goes on when both probe bits read 1.
SearchRoundWalksOn(s, part, last_disc) ==
    SearchStep([s EXCEPT !.reads = @ + 2], BusIdBit(part, s.id_bit_number),
               BusCmpIdBit(part, s.id_bit_number), last_disc, part)

\* The two read_bit calls of a round, and what follows them: the loop is
\* left when both read 1.  reads and writes count the read_bit and write_bit
\* calls of the loop.
SearchRound(s, part, last_disc) ==
    Bind(<<BusIdBit(part, s.id_bit_number), BusCmpIdBit(part, s.id_bit_number)>>,
         LAMBDA probe :
             IF probe[1] /\ probe[2]
             THEN [s EXCEPT !.broke = TRUE, !.reads = @ + 2]
             ELSE SearchStep([s EXCEPT !.reads = @ + 2], probe[1], probe[2],
                             last_disc, part))

\* The rounds of the loop that stay in byte rom_byte_number = byte, from
\* loop state s0: up to the round that moves to the next byte or leaves the
\* loop.
RECURSIVE SearchByte(_, _, _, _)
SearchByte(s0, byte, last_disc, drop) ==
    Bind(s0,
         LAMBDA s :
             IF s.rom_byte_number # byte \/ s.broke THEN s
             ELSE SearchByte(
                      SearchRound(s, BusParticipants(s.part, s.id_bit_number, drop),
                                  last_disc),
                      byte, last_disc, drop))

\* while rom_byte_number < 8 { ... }, from loop state s0, the rounds taken
\* byte by byte
RECURSIVE SearchLoop(_, _, _)
SearchLoop(s0, last_disc, drop) ==
    Bind(s0,
         LAMBDA s :
             IF s.rom_byte_number >= 8 \/ s.broke THEN s
             ELSE SearchLoop(SearchByte(s, s.rom_byte_number, last_disc, drop),
                             last_disc, drop))

\* Variant: last_device_flag is never set.
SearchSuccessNeverLast(c, s) ==
    [last_discrepancy |-> s.last_zero,
     last_family_discrepancy |-> s.last_family_discrepancy,
     last_device_flag |-> c.last_device_flag,
     rom_no |-> s.rom_no]

\* Variant: last_device_flag is set after every successful pass.
SearchSuccessAlwaysLast(c, s) ==
    [last_discrepancy |-> s.last_zero,
     last_family_discrepancy |-> s.last_family_discrepancy,
     last_device_flag |-> TRUE,
     rom_no |-> s.rom_no]

\* if id_bit_number >= 65 { ... }: the state after a pass over all 64 bits
SearchSuccess(c, s) ==
    [last_discrepancy |-> s.last_zero,
     last_family_discrepancy |-> s.last_family_discrepancy,
     last_device_flag |-> (s.last_zero = 0) \/ c.last_device_flag,
     rom_no |-> s.rom_no]

\* Variant: Ok(None) leaves last_discrepancy as it is.
SearchFinishKeepsDiscrepancy(c, search_result) ==
    IF ~search_result \/ c.rom_no[1] = 0
    THEN [cursor |-> [c EXCEPT !.last_device_flag = FALSE],
          result |-> [kind |-> "None"]]
    ELSE [cursor |-> c, result |-> [kind |-> "Some", addr |-> c.rom_no]]

\* if !search_result || self.rom_no[0] == 0 { reset; Ok(None) } else { Ok(Some) }
SearchFinish(c, search_result) ==
    IF ~search_result \/ c.rom_no[1] = 0
    THEN [cursor |-> [c EXCEPT !.last_discrepancy = 0, !.last_device_flag = FALSE],
          result |-> [kind |-> "None"]]
    ELSE [cursor |-> c, result |-> [kind |-> "Some", addr |-> c.rom_no]]

\* The loop state search() starts from
SearchStart(c, devs) ==
    [id_bit_number |-> 1, last_zero |-> 0,
     last_family_discrepancy |-> c.last_family_discrepancy,
     rom_no |-> c.rom_no, rom_byte_number |-> 0, rom_byte_mask |-> 1,
     part |-> devs, broke |-> FALSE, reads |-> 0, writes |-> 0,
     wrote |-> FALSE]

\* What a call did on the bus inside its loop
NoWalk == [broke |-> FALSE, reads |-> 0, writes |-> 0]

Walked(out, did) == [cursor |-> out.cursor, result |-> out.result, walk |-> did]

\* search() after its loop, the loop left in state s
SearchEnd(c, s) ==
    IF s.id_bit_number >= 65
    THEN SearchFinish(SearchSuccess(c, s), TRUE)
    ELSE SearchFinish([c EXCEPT !.rom_no = s.rom_no,
                                !.last_family_discrepancy =
                                    s.last_family_discrepancy], FALSE)

\* DeviceSearch::search on cursor c: the new cursor and the result.
Search(c, devs, stuckLow, drop) ==
    IF c.last_device_flag THEN Walked(SearchFinish(c, FALSE), NoWalk)
    ELSE IF Reset(stuckLow, devs # {}) # "Ok"
    THEN [cursor |-> c,
          result |-> [kind |-> "Err", err |-> Reset(stuckLow, devs # {})],
          walk |-> NoWalk]
    ELSE Bind(SearchLoop(SearchStart(c, devs), c.last_discrepancy, drop),
              LAMBDA s :
                  Walked(SearchEnd(c, s),
                         [broke |-> s.broke, reads |-> s.reads,
                          writes |-> s.writes]))

\* Iterator::next: search().transpose()
IteratorNext(r) ==
    CASE r.kind = "None" -> [kind |-> "None"]
      [] r.kind = "Some" -> [kind |-> "Some", item |-> [kind |-> "Ok", addr |-> r.addr]]
      [] r.kind = "Err" -> [kind |-> "Some", item |-> [kind |-> "Err", err |-> r.err]]

(***************************************************************************)
(* The harness: one DeviceSearch, search() called again and again.         *)
(***************************************************************************)
Range(seq) == {seq[i] : i \in 1..Len(seq)}

NoDuplicates(seq) == \A i, j \in 1..Len(seq) : i # j => seq[i] # seq[j]

Min(a, b) == IF a < b THEN a ELSE b

(***************************************************************************)
(* Bounds of the application model.                                        *)
(***************************************************************************)
\* temp_controller runs this many cycles.
MaxCycles == 2
\* Bus transactions of the control loop that meet a fault.
MaxFaults == 1

(***************************************************************************)
(* ds18b20.rs.  The scratchpad is kept as its temperature word and its     *)
(* configuration byte.  A bus transaction takes a fault from Faults: the   *)
(* line stuck low, no presence pulse after the reset, bytes that fail the  *)
(* CRC, a configuration byte that names no resolution, or no presence      *)
(* pulse at the reset that ends write_scratchpad.                          *)
(***************************************************************************)
Resolutions == {"Bits9", "Bits10", "Bits11", "Bits12"}

Faults == {"none", "stuck_low", "no_presence", "crc", "bad_config", "late_no_presence"}

\* Resolution::to_config_register
ToConfigRegister(res) ==
    CASE res = "Bits9" -> 31 [] res = "Bits10" -> 63
      [] res = "Bits11" -> 95 [] res = "Bits12" -> 127

\* from_config_register, had it matched on the low seven bits only
FromConfigRegisterLowBits(reg) ==
    CASE reg % 128 = 31 -> "Bits9" [] reg % 128 = 63 -> "Bits10"
      [] reg % 128 = 95 -> "Bits11" [] reg % 128 = 127 -> "Bits12"
      [] OTHER -> "None"

\* Resolution::from_config_register
FromConfigRegister(reg) ==
    CASE reg = 31 -> "Bits9" [] reg = 63 -> "Bits10"
      [] reg = 95 -> "Bits11" [] reg = 127 -> "Bits12" [] OTHER -> "None"

\* Resolution::conversion_time, in milliseconds
ConversionTime(res) ==
    CASE res = "Bits9" -> 94 [] res = "Bits10" -> 188
      [] res = "Bits11" -> 375 [] res = "Bits12" -> 750

\* The configuration byte a read returns when the fault garbles it
GarbledConfig == 255

OkResult(v) == [ok |-> TRUE, err |-> "Ok", val |-> v]
ErrResult(e) == [ok |-> FALSE, err |-> e, val |-> 0]

\* OneWire::send_command: only its reset can fail
SendCommand(f) == Reset(f = "stuck_low", f # "no_presence")

\* Ds18b20::read_scratchpad on a device holding (raw, config)
ReadScratchpad(raw, config, f) ==
    IF SendCommand(f) # "Ok" THEN ErrResult(SendCommand(f))
    ELSE IF f = "crc" THEN ErrResult("CrcMismatch")
    ELSE OkResult([raw |-> raw,
                   config |-> IF f = "bad_config" THEN GarbledConfig ELSE config])

\* Ds18b20::write_scratchpad: the result, and the device's configuration
\* byte afterwards
WriteScratchpad(config, data, f) ==
    IF SendCommand(f) # "Ok" THEN [err |-> SendCommand(f), config |-> config]
    ELSE IF f = "late_no_presence"
         THEN [err |-> Reset(FALSE, FALSE), config |-> data]
         ELSE [err |-> Reset(FALSE, TRUE), config |-> data]

\* Ds18b20::set_resolution
SetResolution(raw, config, res, f1, f2) ==
    IF ~ReadScratchpad(raw, config, f1).ok
    THEN [err |-> ReadScratchpad(raw, config, f1).err, config |-> config]
    ELSE WriteScratchpad(config, ToConfigRegister(res), f2)

\* Ds18b20::resolution
ReadResolution(raw, config, f) ==
    Bind(ReadScratchpad(raw, config, f),
         LAMBDA buf : IF ~buf.ok THEN buf
                      ELSE IF FromConfigRegister(buf.val.config) = "None"
                           THEN ErrResult("UnexpectedResponse")
                           ELSE OkResult(FromConfigRegister(buf.val.config)))

\* Ds18b20::start_measurement
StartMeasurement(f) == SendCommand(f)

\* read_data: buf[0] &= mask clears the low 3, 2, 1 or 0 bits of the word
MaskRaw(raw, res) ==
    CASE res = "Bits9" -> raw - (raw % 8) [] res = "Bits10" -> raw - (raw % 4)
      [] res = "Bits11" -> raw - (raw % 2) [] res = "Bits12" -> raw

\* Ds18b20::read_data: the Temperature, as its bits (1/16 degree)
ReadData(raw, config, f) ==
    Bind(ReadScratchpad(raw, config, f),
         LAMBDA buf : IF ~buf.ok THEN buf
                      ELSE IF FromConfigRegister(buf.val.config) = "None"
                           THEN ErrResult("UnexpectedResponse")
                           ELSE OkResult(MaskRaw(buf.val.raw,
                                                 FromConfigRegister(buf.val.config))))

\* The temperature word the sensor converts to in cycle k: 10.1875 and 4.0
\* degrees in turn
MeasuredRaw(k) == IF k % 2 = 0 THEN 163 ELSE 64

\* The temperature word of a sensor that has not converted yet: 85 degrees
PowerOnRaw == 1360

(***************************************************************************)
(* onewire/error.rs and storage/mod.rs.                                    *)
(***************************************************************************)
\* Error::as_str
AsStr(e) ==
    CASE e = "BusNotHigh" -> "Bus not high"
      [] e = "Pin" -> "Pin error"
      [] e = "UnexpectedResponse" -> "Unexpected response"
      [] e = "FamilyCodeMismatch" -> "Family code mismatch"
      [] e = "CrcMismatch" -> "CRC mismatch"
      [] e = "Timeout" -> "Timeout"

\* StoredEvent.msg is [u8; 12]
MSG_LEN == 12
CHAN_SIZE == 1
TEMP_CHAN_SIZE == 1
EVENT_CHAN_SIZE == 1
TEMPS_CAPACITY == 100
EVENTS_CAPACITY == 16
PERIOD_MS == 2000

\* secs.to_le_bytes()[..3]: the low 24 bits of the seconds since startup
Secs(t) == (t \div 1000) % 16777216

NewStrTruncatesEarly(msg) ==
    IF Len(msg) >= MSG_LEN THEN SubSeq(msg, 1, MSG_LEN - 1) ELSE msg

\* StoredEvent::new_str followed by StoredEvent::msg: the text an event
\* built from msg carries
NewStr(msg) ==
    IF Len(msg) >= MSG_LEN THEN SubSeq(msg, 1, MSG_LEN) ELSE msg

\* StoredEvent::now
StoredEventNow(code, msg, t) == [secs |-> Secs(t), code |-> code, msg |-> NewStr(msg)]

\* Temperature::saturating_to_num::<I6F2>: two fraction bits, 8 bits in all
ToI6F2(bits) ==
    IF bits \div 4 > 127 THEN 127
    ELSE IF bits \div 4 < -128 THEN -128 ELSE bits \div 4

\* StoredTemp::now_from_temp
StoredTempNow(temp, t) == [secs |-> Secs(t), value |-> ToI6F2(temp)]

\* HistoryBuffer::write: the oldest entry goes once the buffer is full
HistoryWrite(buf, x, capacity) ==
    IF Len(buf) >= capacity THEN Append(Tail(buf), x) ELSE Append(buf, x)

\* Sender::try_send: a full channel keeps what it holds and refuses x
TrySend(ch, x, capacity) == IF Len(ch) < capacity THEN Append(ch, x) ELSE ch

\* Storage::write: the history and the console channel afterwards
StorageWrite(history, ch, temp, t) ==
    [temps |-> HistoryWrite(history, StoredTempNow(temp, t), TEMPS_CAPACITY),
     tx |-> TrySend(ch, StoredTempNow(temp, t), CHAN_SIZE)]

\* Storage::write_event
StorageWriteEvent(history, event) == HistoryWrite(history, event, EVENTS_CAPACITY)

NoPending == [kind |-> "none"]

InitialSetHist ==
    [last |-> "none", applied |-> "None", changed |-> FALSE,
     prevLast |-> "none", prevApplied |-> "None", sawChange |-> FALSE,
     read |-> "Bits12", issued |-> FALSE]

\* A cycle of temp_controller in which nothing has been done yet
NoCycle == [measures |-> 0, failed |-> FALSE, writes |-> 0, sent |-> 0]

\* The application before init runs
AppFresh ==
    /\ clock = 0
    /\ resolution = "Bits12"
    /\ cooler = FALSE
    /\ devConfig = ToConfigRegister("Bits12")
    /\ devRaw = PowerOnRaw
    /\ ctlPc = "none"
    /\ now = 0
    /\ last_res = "None"
    /\ wake = 0
    /\ pending = NoPending
    /\ tempCh = <<>>
    /\ eventCh = <<>>
    /\ consoleCh = <<>>
    /\ temps = <<>>
    /\ events = <<>>
    /\ watching = FALSE
    /\ t0 = 0
    /\ cycle = 0
    /\ cycErrors = <<>>
    /\ cycEvents = <<>>
    /\ cyc = NoCycle
    /\ setHist = InitialSetHist
    /\ faults = 0

Init ==
    /\ appPc = "off"
    /\ AppFresh
    /\ BenchIdle
    /\ busTime = 0
    /\ devices \in DeviceSets
    /\ lineStuckLow \in BOOLEAN
    /\ last_discrepancy = NewDeviceSearch.last_discrepancy
    /\ last_family_discrepancy = NewDeviceSearch.last_family_discrepancy
    /\ last_device_flag = NewDeviceSearch.last_device_flag
    /\ rom_no = NewDeviceSearch.rom_no
    /\ result = [kind |-> "NotCalled"]
    /\ yielded = <<>>
    /\ finished = [seq |-> <<>>, steady |-> TRUE]
    /\ passSteady = TRUE
    /\ passCalls = 0
    /\ callTick = FALSE
    /\ restarted = FALSE
    /\ fresh = NewDeviceSearch
    /\ freshResult = [kind |-> "NotCalled"]
    /\ walk = [drop |-> 0, did |-> NoWalk]

\* One call of search().  The caller stops once a pass has returned more
\* addresses than there are devices.
SearchCall ==
    /\ Len(yielded) <= Cardinality(devices)
    /\ \E drop \in DropPositions :
       \E r \in {Search(Cursor, devices, lineStuckLow, drop)} :
       \E f \in {Search(fresh, devices, lineStuckLow, drop)} :
         LET none == r.result.kind = "None"
         IN  /\ last_discrepancy' = r.cursor.last_discrepancy
             /\ last_family_discrepancy' = r.cursor.last_family_discrepancy
             /\ last_device_flag' = r.cursor.last_device_flag
             /\ rom_no' = r.cursor.rom_no
             /\ result' = r.result
             /\ yielded' = CASE r.result.kind = "Some" -> Append(yielded, r.result.addr)
                              [] r.result.kind = "None" -> <<>>
                              [] r.result.kind = "Err" -> yielded
             /\ finished' = IF none
                            THEN [seq |-> yielded,
                                  steady |-> passSteady /\ (drop = 0 \/ last_device_flag)]
                            ELSE finished
             /\ passSteady' = (none \/ (passSteady /\ drop = 0))
             /\ passCalls' = IF none THEN 0 ELSE Min(passCalls + 1, MaxCalls)
             /\ callTick' = ~callTick
             /\ restarted' = (restarted \/ none)
             /\ fresh' = IF none THEN NewDeviceSearch ELSE f.cursor
             /\ freshResult' = f.result
             /\ walk' = [drop |-> drop, did |-> r.walk]
    /\ UNCHANGED <<devices, lineStuckLow, appVars, benchVars>>

Next == SearchCall

Spec == Init /\ [][Next]_vars

\* The caller never stops calling.
FairSpec == Init /\ [][Next]_vars /\ WF_vars(SearchCall)

(***************************************************************************)
(* Properties of the device search.                                        *)
(***************************************************************************)
\* A device answers the reset and the line is not stuck.
HealthyBus == devices # {} /\ ~lineStuckLow

NonzeroFamilies == \A a \in devices : FamilyCode(a) # 0

\* a before b in bus-walk order: at the first position where they differ,
\* a has 0 and b has 1.
WalkLess(a, b) ==
    \E n \in 1..64 :
        /\ \A m \in 1..(n - 1) : AddressBit(a, m) = AddressBit(b, m)
        /\ ~AddressBit(a, n)
        /\ AddressBit(b, n)

\* What a pass over a fixed device set has to return: during the pass no
\* address twice and none that is not on the bus; when it ends with Ok(None),
\* all of them.
ExactEnumeration ==
    /\ NoDuplicates(yielded)
    /\ Range(yielded) \subseteq devices
    /\ (result.kind = "None" /\ finished.steady) =>
           (NoDuplicates(finished.seq) /\ Range(finished.seq) = devices)

\* C1 as claimed: over any fixed non-empty set of distinct addresses, the
\* calls up to the first Ok(None) return exactly the addresses on the bus,
\* each once.
C1_EnumeratesAnyDeviceSet == HealthyBus => ExactEnumeration

\* C1 as amended: the same, for device sets in which no family code (the
\* least-significant address byte) is zero.
C1_EnumeratesNonzeroFamilies == (HealthyBus /\ NonzeroFamilies) => ExactEnumeration

\* A pass over three devices has ended, having returned three addresses.
C1_Witness ==
    /\ HealthyBus /\ NonzeroFamilies /\ Cardinality(devices) = 3
    /\ result.kind = "None" /\ finished.steady /\ Len(finished.seq) = 3

\* C2 as claimed: for every device set, the empty one included, the calls
\* reach the end-of-sequence result Ok(None) after finitely many of them.
C2_EveryEnumerationEnds == (~lineStuckLow) ~> (result.kind = "None")

\* C2 as amended: over a non-empty device set every pass reaches Ok(None)
\* after finitely many calls; over an empty bus every call returns
\* Err(UnexpectedResponse) and Ok(None) is never returned.
C2_NonEmptyEnumerationEnds ==
    /\ (HealthyBus /\ result.kind # "None") ~> (result.kind = "None")
    /\ []((devices = {} /\ ~lineStuckLow /\ result.kind # "NotCalled") =>
             result = [kind |-> "Err", err |-> "UnexpectedResponse"])

\* A pass that returned three addresses has reached Ok(None).
C2_Witness ==
    HealthyBus /\ result.kind = "None" /\ Len(finished.seq) = 3

\* C3: once search() has returned Ok(None), every later call returns what the
\* same call returns on a DeviceSearch created at that moment, whatever
\* rom_no and last_family_discrepancy were left behind.
C3_RestartEqualsFresh == restarted => result = freshResult

\* A second pass, begun with a rom_no and a last_family_discrepancy left over
\* from the first, has returned two addresses.
C3_Witness ==
    /\ restarted /\ result.kind = "Some" /\ Len(yielded) = 2
    /\ Len(finished.seq) >= 2

\* C4: within a pass each address returned is strictly greater, in bus-walk
\* order, than the one returned before it.
C4_AscendingWalkOrder ==
    \A i \in 1..(Len(yielded) - 1) : WalkLess(yielded[i], yielded[i + 1])

\* Three addresses returned in one pass.
C4_Witness == Len(yielded) = 3

\* C5: between two calls, last_device_flag implies last_discrepancy = 0 and
\* every device on the bus has been returned in this pass.
C5_LastDeviceMeansExhausted ==
    last_device_flag =>
        (last_discrepancy = 0 /\ devices \subseteq Range(yielded))

\* The flag is set after the third of three devices.
C5_Witness == last_device_flag /\ Cardinality(devices) = 3 /\ Len(yielded) = 3

\* C20: a call in which both probe bits read 1 at some position (no device
\* answers from position walk.drop on, and the call got as far as its loop)
\* stops there: it has read the two probe bits of that position and of
\* every position before it, has written a direction bit for the positions
\* before it only, returns Ok(None), and leaves last_discrepancy = 0 and
\* last_device_flag = false.
C20_NoDeviceAbortsCall ==
    /\ walk.did.broke => walk.drop >= 1
    /\ (walk.drop >= 1 /\ walk.did.reads > 0) =>
        /\ walk.did.broke
        /\ walk.did.reads = 2 * walk.drop
        /\ walk.did.writes = walk.drop - 1
        /\ result = [kind |-> "None"]
        /\ last_discrepancy = 0
        /\ ~last_device_flag

\* The devices stopped answering at bit 6 of a call that followed a found
\* address and a branch point.
C20_Witness ==
    /\ walk.did.broke
    /\ walk.drop = 6
    /\ Len(finished.seq) >= 1
    /\ Cardinality(devices) >= 2

(***************************************************************************)
(* The application.  A task runs from one await to the next; the actions   *)
(* below are the pieces of such a run.  temp_controller and terminal have  *)
(* priority 2 and give way to each other only at an await; storage has     *)
(* priority 1 and runs when neither of them can; time passes when no task  *)
(* can run, and while temp_controller works on the bus.                    *)
(***************************************************************************)
\* Buses init may find: empty, or the water sensor and another device
BootDeviceSets == {{}, {WATER_TEMP_ADDR, PoolAddress(16, 96, 5)}}

\* Milliseconds init takes, and milliseconds the bus work of one measure()
\* takes: a few, or more than a period
BootTimes == {3}
BusTimes == {7, 2500}

\* The faults of the two transactions of one call: at most one of them
\* meets a fault, and none does once MaxFaults have happened.
FaultPairs(n) ==
    IF n >= MaxFaults THEN {<<"none", "none">>}
    ELSE {<<f, "none">> : f \in Faults} \cup {<<"none", f>> : f \in Faults}

FaultChoices(n) == IF n >= MaxFaults THEN {"none"} ELSE Faults

Faulty(f) == IF f = "none" THEN 0 ELSE 1

\* Resolutions the console sets
TermResolutions == {"Bits9", "Bits12"}

\* init: for device in wire.devices(&mut delay) { unwrap!(device) ... }
RECURSIVE BootEnumeration(_, _, _)
BootEnumeration(c, devs, stuckLow) ==
    Bind(Search(c, devs, stuckLow, 0),
         LAMBDA r :
             Bind(IteratorNext(r.result),
                  LAMBDA next :
                      IF next.kind = "None" THEN "done"
                      ELSE IF next.item.kind = "Err" THEN "panicked"
                      ELSE BootEnumeration(r.cursor, devs, stuckLow)))

\* The search harness is not part of the application.
SearchIdle ==
    /\ last_discrepancy = NewDeviceSearch.last_discrepancy
    /\ last_family_discrepancy = NewDeviceSearch.last_family_discrepancy
    /\ last_device_flag = NewDeviceSearch.last_device_flag
    /\ rom_no = NewDeviceSearch.rom_no
    /\ result = [kind |-> "NotCalled"]
    /\ yielded = <<>>
    /\ finished = [seq |-> <<>>, steady |-> TRUE]
    /\ passSteady = TRUE
    /\ passCalls = 0
    /\ callTick = FALSE
    /\ restarted = FALSE
    /\ fresh = NewDeviceSearch
    /\ freshResult = [kind |-> "NotCalled"]
    /\ walk = [drop |-> 0, did |-> NoWalk]

AppInit ==
    /\ appPc = "boot"
    /\ AppFresh
    /\ busTime \in BusTimes
    /\ devices \in BootDeviceSets
    /\ lineStuckLow \in BOOLEAN
    /\ SearchIdle
    /\ BenchIdle

Running == appPc = "running"

\* init up to the spawn of temp_controller
AppBoot ==
    /\ appPc = "boot"
    /\ \E d \in BootTimes :
       \E out \in {BootEnumeration(NewDeviceSearch, devices, lineStuckLow)} :
         /\ appPc' = IF out = "panicked" THEN "panicked" ELSE "running"
         /\ ctlPc' = IF out = "panicked" THEN "none" ELSE "spawned"
         /\ clock' = clock + d
    /\ UNCHANGED <<devices, lineStuckLow, cyc, busTime, searchVars, benchVars, faults,
                   resolution, cooler,
                   devConfig, devRaw, now, last_res, wake, pending, tempCh,
                   eventCh, consoleCh, temps, events, watching, t0, cycle,
                   cycErrors, cycEvents, setHist>>

(***************************************************************************)
(* temp_controller (priority 2).                                           *)
(***************************************************************************)
\* last_res once the set_resolution branch is through: None after an error
LastResKeptOnError(res, failed) == res

LastResAfterSet(res, failed) == IF failed THEN "None" ELSE res

\* now += 2.secs()
NextDeadlineFromClock(deadline, t) == t + PERIOD_MS

NextDeadline(deadline, t) == deadline + PERIOD_MS

\* StoredEvent::now(EventCode::TempSensorError, e.as_str())
ErrorEvent(e, t) == StoredEventNow("TempSensorError", AsStr(e), t)

\* e_tx.send(event).await: the event goes into the channel, or the task is
\* suspended with it until the channel has room
SendEvent(event, next, clear) ==
    IF Len(eventCh) < EVENT_CHAN_SIZE
    THEN /\ eventCh' = Append(eventCh, event)
         /\ cycEvents' = Append(cycEvents, event)
         /\ ctlPc' = next
         /\ pending' = NoPending
    ELSE /\ eventCh' = eventCh
         /\ cycEvents' = cycEvents
         /\ ctlPc' = "sending"
         /\ pending' = [kind |-> "event", event |-> event, next |-> next,
                        clear |-> clear]

\* The task starts: let mut now = Mono::now(); let mut last_res = None;
CtlEnter ==
    /\ Running
    /\ ctlPc = "spawned"
    /\ now' = clock
    /\ t0' = clock
    /\ last_res' = "None"
    /\ ctlPc' = "start"
    /\ UNCHANGED <<devices, lineStuckLow, cyc, busTime, searchVars, benchVars, faults,
                   appPc, clock, resolution,
                   cooler, devConfig, devRaw, wake, pending, tempCh, eventCh,
                   consoleCh, temps, events, watching, cycle, cycErrors,
                   cycEvents, setHist>>

\* The head of the loop: read the shared resolution and apply it when it is
\* not the one applied last.
CtlResolution ==
    /\ Running
    /\ ctlPc = "start"
    /\ LET hist == [setHist EXCEPT !.prevLast = setHist.last,
                                   !.prevApplied = setHist.applied,
                                   !.sawChange = setHist.changed,
                                   !.changed = FALSE,
                                   !.read = resolution]
       IN  IF last_res # resolution
           THEN \E fp \in FaultPairs(faults) :
                \E out \in {SetResolution(devRaw, devConfig, resolution,
                                          fp[1], fp[2])} :
                  LET failed == out.err # "Ok"
                      event == IF failed THEN ErrorEvent(out.err, clock)
                               ELSE StoredEventNow("TempSensorResolutionChanged",
                                                   resolution, clock)
                  IN  /\ devConfig' = out.config
                      /\ faults' = faults + Faulty(fp[1]) + Faulty(fp[2])
                      /\ SendEvent(event, "measure", failed)
                      /\ last_res' = IF Len(eventCh) < EVENT_CHAN_SIZE
                                     THEN LastResAfterSet(resolution, failed)
                                     ELSE resolution
                      /\ cycErrors' = IF failed THEN Append(cycErrors, out.err)
                                      ELSE cycErrors
                      /\ setHist' = [hist EXCEPT
                                       !.issued = TRUE,
                                       !.last = IF failed THEN "failed" ELSE "ok",
                                       !.applied = IF failed THEN @ ELSE resolution]
           ELSE /\ ctlPc' = "measure"
                /\ setHist' = [hist EXCEPT !.issued = FALSE]
                /\ UNCHANGED <<devConfig, last_res, cycErrors, eventCh,
                               cycEvents, pending, faults>>
    /\ UNCHANGED <<devices, lineStuckLow, cyc, busTime, searchVars, benchVars,
                   appPc, clock, resolution,
                   cooler, devRaw, now, wake, tempCh, consoleCh, temps, events,
                   watching, t0, cycle>>

\* A suspended send().await goes through once its channel has room.
CtlSendResume ==
    /\ Running
    /\ ctlPc = "sending"
    /\ IF pending.kind = "event"
       THEN /\ Len(eventCh) < EVENT_CHAN_SIZE
            /\ eventCh' = Append(eventCh, pending.event)
            /\ cycEvents' = Append(cycEvents, pending.event)
            /\ last_res' = IF pending.clear THEN LastResAfterSet(last_res, TRUE)
                           ELSE last_res
            /\ tempCh' = tempCh
            /\ cyc' = cyc
       ELSE /\ Len(tempCh) < TEMP_CHAN_SIZE
            /\ tempCh' = Append(tempCh, pending.temp)
            /\ cyc' = [cyc EXCEPT !.sent = @ + 1]
            /\ UNCHANGED <<eventCh, cycEvents, last_res>>
    /\ ctlPc' = pending.next
    /\ pending' = NoPending
    /\ UNCHANGED <<devices, lineStuckLow, busTime, searchVars, benchVars, faults,
                   appPc, clock, resolution,
                   cooler, devConfig, devRaw, now, wake, consoleCh, temps,
                   events, watching, t0, cycle, cycErrors, setHist>>

\* measure() up to Mono::delay(d.millis()).await
CtlMeasureStart ==
    /\ Running
    /\ ctlPc = "measure"
    /\ \E fp \in FaultPairs(faults), d \in {busTime} :
       \E r \in {ReadResolution(devRaw, devConfig, fp[1])} :
         LET err == IF ~r.ok THEN r.err ELSE StartMeasurement(fp[2])
         IN  /\ clock' = clock + d
             /\ faults' = faults + Faulty(fp[1]) + Faulty(fp[2])
             /\ cyc' = [cyc EXCEPT !.measures = @ + 1, !.failed = err # "Ok"]
             /\ IF err = "Ok"
                THEN /\ wake' = clock + d + ConversionTime(r.val)
                     /\ devRaw' = MeasuredRaw(cycle)
                     /\ ctlPc' = "converting"
                     /\ UNCHANGED <<eventCh, cycEvents, pending, cycErrors>>
                ELSE /\ cycErrors' = Append(cycErrors, err)
                     /\ SendEvent(ErrorEvent(err, clock + d), "deadline", FALSE)
                     /\ UNCHANGED <<wake, devRaw>>
    /\ UNCHANGED <<devices, lineStuckLow, busTime, searchVars, benchVars,
                   appPc, resolution, cooler,
                   devConfig, now, last_res, tempCh, consoleCh, temps, events,
                   watching, t0, cycle, setHist>>

\* temp_controller_inner writes the cooler pin whatever measure() returned
PinWrittenAlways(r) == TRUE

\* temp_controller_inner reaches cx.shared.cooler.lock: measure(..).await?
\* returned a temperature
PinWritten(r) == r.ok

\* measure() after the conversion wait, then the rest of
\* temp_controller_inner: the controller output (the pid crate is not part
\* of the sources: either output is possible), the cooler pin, tx.send.
CtlMeasureRead ==
    /\ Running
    /\ ctlPc = "converting"
    /\ clock >= wake
    /\ \E f \in FaultChoices(faults), cooler_on \in BOOLEAN :
       \E r \in {ReadData(devRaw, devConfig, f)} :
         /\ faults' = faults + Faulty(f)
         /\ cooler' = IF PinWritten(r) THEN cooler_on ELSE cooler
         /\ cyc' = [cyc EXCEPT
                       !.failed = ~r.ok,
                       !.writes = @ + (IF PinWritten(r) THEN 1 ELSE 0),
                       !.sent = @ + (IF r.ok /\ Len(tempCh) < TEMP_CHAN_SIZE
                                     THEN 1 ELSE 0)]
         /\ IF r.ok
            THEN /\ IF Len(tempCh) < TEMP_CHAN_SIZE
                    THEN /\ tempCh' = Append(tempCh, r.val)
                         /\ ctlPc' = "deadline"
                         /\ pending' = NoPending
                    ELSE /\ tempCh' = tempCh
                         /\ ctlPc' = "sending"
                         /\ pending' = [kind |-> "temp", temp |-> r.val,
                                        next |-> "deadline", clear |-> FALSE]
                 /\ UNCHANGED <<eventCh, cycEvents, cycErrors>>
            ELSE /\ cycErrors' = Append(cycErrors, r.err)
                 /\ SendEvent(ErrorEvent(r.err, clock), "deadline", FALSE)
                 /\ UNCHANGED tempCh
    /\ UNCHANGED <<devices, lineStuckLow, busTime, searchVars, benchVars,
                   appPc, clock, resolution,
                   devConfig, devRaw, now, last_res, wake, consoleCh, temps,
                   events, watching, t0, cycle, setHist>>

\* now += 2.secs(); Mono::delay_until(now).await
CtlDeadline ==
    /\ Running
    /\ ctlPc = "deadline"
    /\ now' = NextDeadline(now, clock)
    /\ cycle' = cycle + 1
    /\ ctlPc' = "wait"
    /\ UNCHANGED <<devices, lineStuckLow, cyc, busTime, searchVars, benchVars, faults,
                   appPc, clock, resolution,
                   cooler, devConfig, devRaw, last_res, wake, pending, tempCh,
                   eventCh, consoleCh, temps, events, watching, t0, cycErrors,
                   cycEvents, setHist>>

\* The deadline has come: the next cycle starts.
CtlWake ==
    /\ Running
    /\ ctlPc = "wait"
    /\ clock >= now
    /\ cycle < MaxCycles
    /\ ctlPc' = "start"
    /\ cycErrors' = <<>>
    /\ cycEvents' = <<>>
    /\ cyc' = NoCycle
    /\ UNCHANGED <<devices, lineStuckLow, busTime, searchVars, benchVars, faults,
                   appPc, clock, resolution,
                   cooler, devConfig, devRaw, now, last_res, wake, pending,
                   tempCh, eventCh, consoleCh, temps, events, watching, t0,
                   cycle, setHist>>

\* temp_controller is between two awaits
CtlMidRun == ctlPc \in {"start", "measure", "deadline"}

\* temp_controller can run
CtlRunnable ==
    \/ ctlPc \in {"spawned", "start", "measure", "deadline"}
    \/ ctlPc = "sending" /\ pending.kind = "event" /\ Len(eventCh) < EVENT_CHAN_SIZE
    \/ ctlPc = "sending" /\ pending.kind = "temp" /\ Len(tempCh) < TEMP_CHAN_SIZE
    \/ ctlPc = "converting" /\ clock >= wake
    \/ ctlPc = "wait" /\ clock >= now /\ cycle < MaxCycles

(***************************************************************************)
(* terminal (priority 2): the resolution command and watch_temps.          *)
(***************************************************************************)
\* "resolution 9" ... "resolution 12"
TermResolution ==
    /\ Running
    /\ ~CtlMidRun
    /\ ~watching
    /\ \E r \in TermResolutions :
         /\ resolution' = r
         /\ setHist' = [setHist EXCEPT !.changed = @ \/ r # resolution]
    /\ UNCHANGED <<devices, lineStuckLow, cyc, busTime, searchVars, benchVars, faults,
                   appPc, clock, cooler,
                   devConfig, devRaw, ctlPc, now, last_res, wake, pending,
                   tempCh, eventCh, consoleCh, temps, events, watching, t0,
                   cycle, cycErrors, cycEvents>>

\* "cooler on", "cooler off"
TermCooler ==
    /\ Running
    /\ ~CtlMidRun
    /\ ~watching
    /\ \E on \in BOOLEAN : cooler' = on
    /\ UNCHANGED <<devices, lineStuckLow, cyc, busTime, searchVars, benchVars,
                   faults, appPc, clock, resolution,
                   devConfig, devRaw, ctlPc, now, last_res, wake, pending,
                   tempCh, eventCh, consoleCh, temps, events, watching, t0,
                   cycle, cycErrors, cycEvents, setHist>>

\* "watch temps": watch_temps is entered
TermWatchStart ==
    /\ Running
    /\ ~CtlMidRun
    /\ ~watching
    /\ watching' = TRUE
    /\ UNCHANGED <<devices, lineStuckLow, cyc, busTime, searchVars, benchVars, faults,
                   appPc, clock, resolution,
                   cooler, devConfig, devRaw, ctlPc, now, last_res, wake,
                   pending, tempCh, eventCh, consoleCh, temps, events, t0,
                   cycle, cycErrors, cycEvents, setHist>>

\* watch_temps: rx.recv().await returns, the value is printed, and the loop
\* ends when the input buffer holds an 's'
TermWatchRecv ==
    /\ Running
    /\ ~CtlMidRun
    /\ watching
    /\ consoleCh # <<>>
    /\ consoleCh' = Tail(consoleCh)
    /\ \E to_break \in BOOLEAN : watching' = ~to_break
    /\ UNCHANGED <<devices, lineStuckLow, cyc, busTime, searchVars, benchVars, faults,
                   appPc, clock, resolution,
                   cooler, devConfig, devRaw, ctlPc, now, last_res, wake,
                   pending, tempCh, eventCh, temps, events, t0, cycle,
                   cycErrors, cycEvents, setHist>>

\* A task of priority 2 can run
Prio2Runnable == CtlRunnable \/ (watching /\ consoleCh # <<>>)

(***************************************************************************)
(* storage (priority 1).  try_select polls the temperature channel first.  *)
(***************************************************************************)
StorageTemp ==
    /\ Running
    /\ ~Prio2Runnable
    /\ tempCh # <<>>
    /\ \E out \in {StorageWrite(temps, consoleCh, Head(tempCh), clock)} :
         /\ temps' = out.temps
         /\ consoleCh' = out.tx
    /\ tempCh' = Tail(tempCh)
    /\ UNCHANGED <<devices, lineStuckLow, cyc, busTime, searchVars, benchVars, faults,
                   appPc, clock, resolution,
                   cooler, devConfig, devRaw, ctlPc, now, last_res, wake,
                   pending, eventCh, events, watching, t0, cycle, cycErrors,
                   cycEvents, setHist>>

StorageEvent ==
    /\ Running
    /\ ~Prio2Runnable
    /\ tempCh = <<>>
    /\ eventCh # <<>>
    /\ events' = StorageWriteEvent(events, Head(eventCh))
    /\ eventCh' = Tail(eventCh)
    /\ UNCHANGED <<devices, lineStuckLow, cyc, busTime, searchVars, benchVars, faults,
                   appPc, clock, resolution,
                   cooler, devConfig, devRaw, ctlPc, now, last_res, wake,
                   pending, tempCh, consoleCh, temps, watching, t0, cycle,
                   cycErrors, cycEvents, setHist>>

(***************************************************************************)
(* Time passes to the next instant a task waits for, once no task can run. *)
(***************************************************************************)
Tick ==
    /\ Running
    /\ ~Prio2Runnable
    /\ tempCh = <<>>
    /\ eventCh = <<>>
    /\ \/ ctlPc = "converting" /\ clock' = wake
       \/ ctlPc = "wait" /\ cycle < MaxCycles /\ clock' = now
    /\ UNCHANGED <<devices, lineStuckLow, cyc, busTime, searchVars, benchVars, faults,
                   appPc, resolution, cooler,
                   devConfig, devRaw, ctlPc, now, last_res, wake, pending,
                   tempCh, eventCh, consoleCh, temps, events, watching, t0,
                   cycle, cycErrors, cycEvents, setHist>>

AppNext ==
    \/ AppBoot
    \/ CtlEnter
    \/ CtlResolution
    \/ CtlSendResume
    \/ CtlMeasureStart
    \/ CtlMeasureRead
    \/ CtlDeadline
    \/ CtlWake
    \/ TermResolution
    \/ TermCooler
    \/ TermWatchStart
    \/ TermWatchRecv
    \/ StorageTemp
    \/ StorageEvent
    \/ Tick

SpecApp == AppInit /\ [][AppNext]_vars

(***************************************************************************)
(* Properties of the application.                                          *)
(***************************************************************************)
\* C6: a second temperature sent into a full capacity-1 channel never
\* suspends the producer, and the next receive sees the newer value: the
\* controller is never suspended in tx.send, and what the console channel
\* holds is the temperature Storage::write was given last.
C6_LatestWins ==
    /\ ~(ctlPc = "sending" /\ pending.kind = "temp")
    /\ consoleCh # <<>> => Head(consoleCh) = temps[Len(temps)]

IsErrorEvent(event) == event.code = "TempSensorError"

\* The text of the error events sent in this cycle, in order
ErrorTexts == [i \in 1..Len(SelectSeq(cycEvents, IsErrorEvent)) |->
                  SelectSeq(cycEvents, IsErrorEvent)[i].msg]

\* temp_controller, once started, stands somewhere in its loop
CtlInLoop ==
    (Running /\ ctlPc # "spawned") =>
        ctlPc \in {"start", "sending", "measure", "converting", "deadline", "wait"}

\* C7 as claimed: the loop is never left, and when the controller waits for
\* its next deadline it has sent, for every error set_resolution or measure
\* returned in the cycle, a TempSensorError event carrying the error's text.
C7_ErrorEventCarriesText ==
    /\ CtlInLoop
    /\ ctlPc = "wait" =>
           ErrorTexts = [i \in 1..Len(cycErrors) |-> AsStr(cycErrors[i])]

\* C7 as amended: the same, the event carrying the first 12 bytes of the
\* error's text (all of it when it is shorter).
C7_ErrorEventCarriesTextPrefix ==
    /\ CtlInLoop
    /\ ctlPc = "wait" =>
           ErrorTexts = [i \in 1..Len(cycErrors) |->
                            SubSeq(AsStr(cycErrors[i]), 1,
                                   Min(Len(AsStr(cycErrors[i])), 12))]

C7_Witness ==
    /\ ctlPc = "wait"
    /\ cycErrors = <<"UnexpectedResponse">>
    /\ ErrorTexts = <<"Unexpected r">>

\* C8: no error of a bus operation ends in a panic or halt, the boot-time
\* enumeration on an empty bus or a stuck line included.
C8_BusErrorsNeverPanic == appPc # "panicked"

\* C9 as claimed: a cycle that follows a failed set_resolution starts with
\* another one; after a successful apply there is none while the shared
\* resolution has not been changed, and there is one in the first cycle
\* after it has been changed.
C9_ReappliesAfterAnyChange ==
    /\ setHist.prevLast = "failed" => setHist.issued
    /\ (setHist.prevLast = "ok" /\ ~setHist.sawChange) => ~setHist.issued
    /\ (setHist.prevLast = "ok" /\ setHist.sawChange) => setHist.issued

\* C9 as amended: a cycle that follows a failed set_resolution starts with
\* another one; after a successful apply of R a cycle starts with one
\* exactly when the shared resolution it reads differs from R.
C9_ReappliesWhenValueDiffers ==
    /\ setHist.prevLast = "failed" => setHist.issued
    /\ setHist.prevLast = "ok" =>
           (setHist.issued <=> setHist.read # setHist.prevApplied)

C9_Witness ==
    /\ setHist.prevLast = "failed"
    /\ setHist.issued
    /\ setHist.last = "ok"
    /\ cycle >= 1

\* C10: the deadline awaited at the end of the k-th cycle is t0 + k * 2 s.
C10_DeadlinesDoNotDrift == ctlPc = "wait" => now = t0 + cycle * 2000

C10_Witness ==
    /\ ctlPc = "wait"
    /\ cycle = 2
    /\ clock > now
    /\ cycErrors # <<>>

(***************************************************************************)
(* OneWire's bus operations on the pin.  reset, write_bit and read_bit run *)
(* statement by statement, with interrupt handlers running between the     *)
(* statements whenever interrupts are enabled; write_byte, read_byte and   *)
(* send_command are recorded by the operations they make on the bus.       *)
(***************************************************************************)
\* Interrupt handlers that may run during one bit-level call.
MaxInterrupts == 1

Stmt(op, us) == [op |-> op, us |-> us]

\* reset(): the wait loop, the reset pulse, the presence sample, the rest of
\* the slot.  us of wait_high is the delay of one turn of the loop.
ResetBodyReturnsEarly ==
    <<Stmt("wait_high", 2),
      Stmt("set_low", 0), Stmt("delay_us", 480),
      Stmt("set_high", 0), Stmt("delay_us", 70),
      Stmt("is_low", 0),
      Stmt("return_presence", 0),
      Stmt("delay_us", 410)>>

ResetBody ==
    <<Stmt("wait_high", 2),
      Stmt("set_low", 0), Stmt("delay_us", 480),
      Stmt("set_high", 0), Stmt("delay_us", 70),
      Stmt("is_low", 0),
      Stmt("delay_us", 410),
      Stmt("return_presence", 0)>>

\* if retries == 0 { return Err(Error::BusNotHigh); }
ResetGivesUpEarly(r) == r <= 1

ResetGivesUp(r) == r = 0

\* write_bit(bit)
WriteBitBody(bit) ==
    IF bit
    THEN <<Stmt("set_low", 0), Stmt("delay_us", 10),
           Stmt("set_high", 0), Stmt("delay_us", 55),
           Stmt("return_ok", 0)>>
    ELSE <<Stmt("set_low", 0), Stmt("delay_us", 65),
           Stmt("set_high", 0), Stmt("delay_us", 5),
           Stmt("return_ok", 0)>>

\* read_bit(): cortex_m::interrupt::free around the pull-down, the release and
\* the sample, then the rest of the slot.
ReadBitBodyUnmasked ==
    <<Stmt("set_low", 0), Stmt("delay_us", 1),
      Stmt("set_high", 0), Stmt("delay_us", 1),
      Stmt("is_high", 0),
      Stmt("delay_us", 53),
      Stmt("return_bit", 0)>>

ReadBitBody ==
    <<Stmt("irq_off", 0),
      Stmt("set_low", 0), Stmt("delay_us", 1),
      Stmt("set_high", 0), Stmt("delay_us", 1),
      Stmt("is_high", 0),
      Stmt("irq_on", 0),
      Stmt("delay_us", 53),
      Stmt("return_bit", 0)>>

BitOps == {"reset", "write_bit", "read_bit"}

WireBody(op, arg) ==
    CASE op = "reset" -> ResetBody
      [] op = "write_bit" -> WriteBitBody(arg = 1)
      [] op = "read_bit" -> ReadBitBody

\* The statement that runs next.
WireStmt == WireBody(wOp, wArg)[wPc]

WireRunning == ~wDone /\ wOp \in BitOps

\* read_bit has pulled the line low and has not sampled it yet.
ReadWindowOpen ==
    /\ wOp = "read_bit"
    /\ ~wDone
    /\ \E i \in 1..Len(pinLog) : pinLog[i].op = "set_low"
    /\ sampled = "none"

\* (byte >> i) & 1 == 1
ShiftedBitMsbFirst(byte, i) == (byte \div Pow2(7 - i)) % 2 = 1

ShiftedBit(byte, i) == (byte \div Pow2(i)) % 2 = 1

\* write_byte: the bits handed to write_bit, first call first.
WriteByte(byte) == [k \in 1..8 |-> ShiftedBit(byte, k - 1)]

\* read_byte: line[k] is what the k-th read_bit returns.
RECURSIVE ReadByteLoop(_, _, _)
ReadByteLoop(line, i, ret) ==
    IF i = 8 THEN ret
    ELSE ReadByteLoop(line, i + 1,
                      IF line[i + 1] THEN OrMask(ret, Pow2(i)) ELSE ret)

ReadByte(line) == ReadByteLoop(line, 0, 0)

\* One operation on the bus as a byte-level call makes it.
BusOp(op, arg, ret) == [op |-> op, arg |-> arg, ret |-> ret]

BitArg(bit) == IF bit THEN 1 ELSE 0

\* u64::from_le_bytes and u64::to_le_bytes, the u64 being four 16-bit words,
\* most significant first.
FromBeBytes(b) ==
    <<b[1] * 256 + b[2], b[3] * 256 + b[4], b[5] * 256 + b[6],
      b[7] * 256 + b[8]>>

FromLeBytes(b) ==
    <<b[8] * 256 + b[7], b[6] * 256 + b[5], b[4] * 256 + b[3],
      b[2] * 256 + b[1]>>

ToLeBytes(a) ==
    <<a[4] % 256, a[4] \div 256, a[3] % 256, a[3] \div 256,
      a[2] % 256, a[2] \div 256, a[1] % 256, a[1] \div 256>>

\* The ROM commands.
MATCH_ROM == 85
SKIP_ROM == 204

\* The function commands of the DS18B20 that send_command carries.
CONVERT_T == 68
READ_SCRATCHPAD == 190

\* select_address, skip_address
SelectAddress(a) ==
    <<BusOp("write_byte", MATCH_ROM, "Ok")>>
        \o [k \in 1..8 |-> BusOp("write_byte", ToLeBytes(a)[k], "Ok")]

SkipAddress == <<BusOp("write_byte", SKIP_ROM, "Ok")>>

\* send_command(address, command), its reset returning resetRet: the
\* operations it makes on the bus.
SendCommandOpsIgnoresReset(target, command, resetRet) ==
    <<BusOp("reset", 0, resetRet)>>
        \o (IF target # <<>> THEN SelectAddress(target[1]) ELSE SkipAddress)
        \o <<BusOp("write_byte", command, "Ok")>>

SendCommandOps(target, command, resetRet) ==
    IF resetRet # "Ok" THEN <<BusOp("reset", 0, resetRet)>>
    ELSE <<BusOp("reset", 0, resetRet)>>
            \o (IF target # <<>> THEN SelectAddress(target[1]) ELSE SkipAddress)
            \o <<BusOp("write_byte", command, "Ok")>>

\* The targets and commands the calls are made with.
SendTargets ==
    {<<>>, <<FromLeBytes(WATER_TEMP_ADDR)>>,
     <<FromLeBytes(PoolAddress(16, 97, 133))>>}

SendCommands == {CONVERT_T, READ_SCRATCHPAD}

notWire ==
    <<devices, lineStuckLow, searchVars, appVars, schedVars, roundVars,
      sensorVars, consoleVars, pidVars,
      storeVars>>

WireInit ==
    /\ StoreIdle
    /\ appPc = "off"
    /\ AppFresh
    /\ busTime = 0
    /\ devices = {}
    /\ lineStuckLow = FALSE
    /\ SearchIdle
    /\ WireIdle
    /\ SchedIdle
    /\ RoundIdle
    /\ SensorIdle
    /\ ConsoleIdle
    /\ PidIdle

\* A caller starts reset(), write_bit(bit) or read_bit().
WireCall ==
    /\ wDone
    /\ \E call \in {<<"reset", 0>>, <<"write_bit", 0>>, <<"write_bit", 1>>,
                    <<"read_bit", 0>>} :
        /\ wOp' = call[1]
        /\ wArg' = call[2]
        /\ retries' = IF call[1] = "reset" THEN RESET_RETRIES ELSE 0
    /\ wTarget' = <<>>
    /\ wLine' = <<>>
    /\ wValue' = 0
    /\ wPc' = 1
    /\ wDone' = FALSE
    /\ wRet' = "none"
    /\ samples' = 0
    /\ sawHigh' = FALSE
    /\ sampled' = "none"
    /\ delayed' = 0
    /\ pinLog' = <<>>
    /\ masked' = FALSE
    /\ irqs' = 0
    /\ intrusions' = 0
    /\ busLog' = <<>>
    /\ UNCHANGED notWire

\* One turn of while self.pin.is_low()? { ... } in reset().
WireWait ==
    /\ WireRunning
    /\ WireStmt.op = "wait_high"
    /\ samples' = samples + 1
    /\ \E low \in BOOLEAN :
        IF low
        THEN IF ResetGivesUp(retries)
             THEN /\ wDone' = TRUE
                  /\ wRet' = "BusNotHigh"
                  /\ UNCHANGED <<retries, delayed, sawHigh, wPc>>
             ELSE /\ retries' = retries - 1
                  /\ delayed' = delayed + WireStmt.us
                  /\ UNCHANGED <<wDone, wRet, sawHigh, wPc>>
        ELSE /\ sawHigh' = TRUE
             /\ wPc' = wPc + 1
             /\ UNCHANGED <<wDone, wRet, retries, delayed>>
    /\ UNCHANGED <<wOp, wArg, wTarget, wLine, wValue, sampled, pinLog, masked,
                   irqs, intrusions, busLog>>
    /\ UNCHANGED notWire

\* self.pin.set_low(), self.pin.set_high(), delay.delay_us(us)
WirePin ==
    /\ WireRunning
    /\ WireStmt.op \in {"set_low", "set_high", "delay_us"}
    /\ pinLog' = Append(pinLog, WireStmt)
    /\ delayed' = delayed + WireStmt.us
    /\ wPc' = wPc + 1
    /\ UNCHANGED <<wOp, wArg, wTarget, wLine, wValue, wDone, wRet, retries,
                   samples, sawHigh, sampled, masked, irqs, intrusions,
                   busLog>>
    /\ UNCHANGED notWire

\* Entering and leaving cortex_m::interrupt::free
WireMask ==
    /\ WireRunning
    /\ WireStmt.op \in {"irq_off", "irq_on"}
    /\ masked' = (WireStmt.op = "irq_off")
    /\ wPc' = wPc + 1
    /\ UNCHANGED <<wOp, wArg, wTarget, wLine, wValue, wDone, wRet, retries,
                   samples, sawHigh, sampled, delayed, pinLog, irqs,
                   intrusions, busLog>>
    /\ UNCHANGED notWire

\* self.pin.is_low() after the reset pulse, self.pin.is_high() in read_bit
WireSample ==
    /\ WireRunning
    /\ WireStmt.op \in {"is_low", "is_high"}
    /\ sampled' \in {"low", "high"}
    /\ pinLog' = Append(pinLog, WireStmt)
    /\ wPc' = wPc + 1
    /\ UNCHANGED <<wOp, wArg, wTarget, wLine, wValue, wDone, wRet, retries,
                   samples, sawHigh, delayed, masked, irqs, intrusions,
                   busLog>>
    /\ UNCHANGED notWire

\* The value the operation returns.
WireReturn ==
    /\ WireRunning
    /\ WireStmt.op \in {"return_presence", "return_ok", "return_bit"}
    /\ wDone' = TRUE
    /\ wRet' = CASE WireStmt.op = "return_presence" ->
                        IF sampled = "low" THEN "Ok" ELSE "UnexpectedResponse"
                 [] WireStmt.op = "return_ok" -> "Ok"
                 [] WireStmt.op = "return_bit" ->
                        IF sampled = "high" THEN "true" ELSE "false"
    /\ UNCHANGED <<wOp, wArg, wTarget, wLine, wValue, wPc, retries, samples,
                   sawHigh, sampled, delayed, pinLog, masked, irqs,
                   intrusions, busLog>>
    /\ UNCHANGED notWire

\* An interrupt handler runs between two statements of the operation.
Interrupt ==
    /\ WireRunning
    /\ ~masked
    /\ irqs < MaxInterrupts
    /\ irqs' = irqs + 1
    /\ intrusions' = IF ReadWindowOpen THEN intrusions + 1 ELSE intrusions
    /\ UNCHANGED <<wOp, wArg, wTarget, wLine, wValue, wPc, wDone, wRet,
                   retries, samples, sawHigh, sampled, delayed, pinLog, masked,
                   busLog>>
    /\ UNCHANGED notWire

\* The variables of a bit-level call, at rest during a byte-level one.
ByteLevel ==
    /\ wPc' = 1
    /\ wDone' = TRUE
    /\ retries' = 0
    /\ samples' = 0
    /\ sawHigh' = FALSE
    /\ sampled' = "none"
    /\ delayed' = 0
    /\ pinLog' = <<>>
    /\ masked' = FALSE
    /\ irqs' = 0
    /\ intrusions' = 0
    /\ UNCHANGED notWire

\* write_byte(byte)
WriteByteCall ==
    /\ wDone
    /\ \E byte \in 0..255 :
        /\ wArg' = byte
        /\ busLog' = [k \in 1..8 |->
                        BusOp("write_bit", BitArg(WriteByte(byte)[k]), "Ok")]
    /\ wOp' = "write_byte"
    /\ wTarget' = <<>>
    /\ wLine' = <<>>
    /\ wValue' = 0
    /\ wRet' = "Ok"
    /\ ByteLevel

\* read_byte(), the 8 slots reading line
ReadByteCall ==
    /\ wDone
    /\ \E line \in [1..8 -> BOOLEAN] :
        /\ wLine' = line
        /\ wValue' = ReadByte(line)
        /\ busLog' = [k \in 1..8 |-> BusOp("read_bit", BitArg(line[k]), "Ok")]
    /\ wOp' = "read_byte"
    /\ wArg' = 0
    /\ wTarget' = <<>>
    /\ wRet' = "Ok"
    /\ ByteLevel

\* send_command(address, command) on a line that may be stuck low and a bus
\* that may hold no device
SendCommandCall ==
    /\ wDone
    /\ \E target \in SendTargets, command \in SendCommands,
          stuckLow \in BOOLEAN, present \in BOOLEAN :
        /\ wTarget' = target
        /\ wArg' = command
        /\ busLog' = SendCommandOps(target, command, Reset(stuckLow, present))
        /\ wRet' = Reset(stuckLow, present)
    /\ wOp' = "send_command"
    /\ wLine' = <<>>
    /\ wValue' = 0
    /\ ByteLevel

WireNext ==
    \/ WireCall
    \/ WireWait
    \/ WirePin
    \/ WireMask
    \/ WireSample
    \/ WireReturn
    \/ Interrupt
    \/ WriteByteCall
    \/ ReadByteCall
    \/ SendCommandCall

SpecWire == WireInit /\ [][WireNext]_vars

(***************************************************************************)
(* Properties of the bus operations.                                       *)
(***************************************************************************)
\* C15: when every poll of reset() reads the line low, reset() returns
\* BusNotHigh after 126 samples with 125 delays of 2 us between them (250 us),
\* and it has not driven the pin low or high; the wait never samples more
\* than 126 times, and BusNotHigh is returned in no other case.
C15_StuckLowGivesUp ==
    /\ wOp = "reset" => samples <= 126
    /\ (wOp = "reset" /\ ~sawHigh) => pinLog = <<>>
    /\ (wOp = "reset" /\ wDone /\ ~sawHigh) =>
        /\ wRet = "BusNotHigh"
        /\ samples = 126
        /\ delayed = 250
    /\ (wOp = "reset" /\ wRet = "BusNotHigh") => (wDone /\ ~sawHigh)

C15_Witness ==
    /\ wOp = "reset"
    /\ wDone
    /\ wRet = "BusNotHigh"
    /\ samples = 126
    /\ irqs = 1

\* C16: once reset() has seen the line high it pulls the line low, waits
\* 480 us, releases it, waits 70 us, samples once and waits 410 us more, in
\* this order and with nothing else on the pin; it returns Ok exactly when
\* the sample is low and UnexpectedResponse exactly when it is high, and in
\* both cases only after the wait of 410 us.
C16_ResetPulseAndPresence ==
    /\ (wOp = "reset" /\ sawHigh) =>
        /\ Len(pinLog) <= 6
        /\ pinLog = SubSeq(<<Stmt("set_low", 0), Stmt("delay_us", 480),
                             Stmt("set_high", 0), Stmt("delay_us", 70),
                             Stmt("is_low", 0), Stmt("delay_us", 410)>>,
                           1, Len(pinLog))
    /\ (wOp = "reset" /\ ~wDone) => wRet = "none"
    /\ (wOp = "reset" /\ sawHigh /\ wDone) =>
        /\ Len(pinLog) = 6
        /\ delayed = 2 * (samples - 1) + 480 + 70 + 410
        /\ sampled \in {"low", "high"}
        /\ wRet \in {"Ok", "UnexpectedResponse"}
        /\ wRet = "Ok" <=> sampled = "low"
        /\ wRet = "UnexpectedResponse" <=> sampled = "high"

C16_Witness ==
    /\ wOp = "reset"
    /\ wDone
    /\ samples = 3
    /\ sampled = "high"
    /\ wRet = "UnexpectedResponse"
    /\ Len(pinLog) = 6

\* C17: every write_bit call that has returned has spent 65 us in its delays,
\* whatever the bit.
C17_WriteSlotIsFixed ==
    (wOp = "write_bit" /\ wDone) => delayed = 65

\* C13: no interrupt handler runs between the pull-down and the sample of
\* read_bit: interrupts are disabled for as long as the line has been pulled
\* low and not yet sampled, the pin sees the pull-down, 1 us, the release,
\* 1 us and the sample with nothing between, and read_bit returns true
\* exactly when the sample is high.
C13_ReadWindowUninterrupted ==
    /\ intrusions = 0
    /\ ReadWindowOpen => masked
    /\ (wOp = "read_bit" /\ sampled # "none") =>
        SubSeq(pinLog, 1, 5) =
            <<Stmt("set_low", 0), Stmt("delay_us", 1), Stmt("set_high", 0),
              Stmt("delay_us", 1), Stmt("is_high", 0)>>
    /\ (wOp = "read_bit" /\ wDone) =>
        /\ sampled \in {"low", "high"}
        /\ wRet \in {"true", "false"}
        /\ wRet = "true" <=> sampled = "high"

C13_Witness ==
    /\ wOp = "read_bit"
    /\ wDone
    /\ wRet = "true"
    /\ sampled = "high"
    /\ irqs = 1

\* C18: write_byte(b) makes exactly 8 write_bit calls, the i-th (i = 0..7)
\* with bit i of b; read_byte makes exactly 8 read_bit calls and returns the
\* sum of bit_i * 2^i; and read_byte over a line that replays the bits of
\* write_byte(b) returns b.
C18_ByteIsEightBitsLsbFirst ==
    /\ wOp = "write_byte" =>
        /\ Len(busLog) = 8
        /\ \A i \in 0..7 :
            busLog[i + 1] = BusOp("write_bit", (wArg \div (2 ^ i)) % 2, "Ok")
    /\ wOp = "read_byte" =>
        /\ Len(busLog) = 8
        /\ \A i \in 0..7 :
            busLog[i + 1] = BusOp("read_bit", BitArg(wLine[i + 1]), "Ok")
        /\ wValue = BitArg(wLine[1]) + 2 * BitArg(wLine[2])
                    + 4 * BitArg(wLine[3]) + 8 * BitArg(wLine[4])
                    + 16 * BitArg(wLine[5]) + 32 * BitArg(wLine[6])
                    + 64 * BitArg(wLine[7]) + 128 * BitArg(wLine[8])
        /\ \A b \in 0..255 : wLine = WriteByte(b) => wValue = b

C18_Witness ==
    /\ wOp = "read_byte"
    /\ wLine = WriteByte(166)
    /\ wValue = 166
    /\ wLine = <<FALSE, TRUE, TRUE, FALSE, FALSE, TRUE, FALSE, TRUE>>

\* C19: send_command first resets the bus; when the reset fails it returns
\* the reset's error and writes no byte; otherwise it writes MATCH_ROM (0x55)
\* and the 8 bytes of the address, least significant first, or SKIP_ROM
\* (0xCC) alone when no address is given, and then the command byte.
C19_SendCommandOrder ==
    wOp = "send_command" =>
        /\ Len(busLog) >= 1
        /\ busLog[1].op = "reset"
        /\ wRet = busLog[1].ret
        /\ wRet # "Ok" =>
            /\ wRet \in {"BusNotHigh", "UnexpectedResponse"}
            /\ Len(busLog) = 1
        /\ wRet = "Ok" =>
            /\ \A k \in 2..Len(busLog) : busLog[k].op = "write_byte"
            /\ busLog[Len(busLog)].arg = wArg
            /\ wTarget = <<>> =>
                /\ Len(busLog) = 3
                /\ busLog[2].arg = 204
            /\ wTarget # <<>> =>
                /\ Len(busLog) = 11
                /\ busLog[2].arg = 85
                /\ \A k \in 0..7 :
                    busLog[3 + k].arg =
                        (wTarget[1][4 - (k \div 2)] \div (256 ^ (k % 2))) % 256

C19_Witness ==
    /\ wOp = "send_command"
    /\ wRet = "Ok"
    /\ wTarget = <<(<<1280, 15, 33787, 24616>>)>>
    /\ wArg = 190
    /\ busLog[3].arg = 40
    /\ busLog[10].arg = 5
    /\ busLog[11].arg = 190

(***************************************************************************)
(* Scheduling.  An activity is dispatched when its priority is above the   *)
(* priority of everything active and above the ceiling of every open lock  *)
(* closure, and then runs before anything below it; a lock closure raises  *)
(* the level to the ceiling of its resource and never waits.               *)
(***************************************************************************)
\* Largest number of complete lines the console buffer holds.
MaxLines == 1
\* Interrupts and wake-ups counted between two moments at which the core is
\* idle.
MaxBurst == 2

Resources == {"cooler", "resolution", "storage", "usart", "buffer"}

\* #[task(priority = ..)]; a task bound to an interrupt without a priority
\* argument has priority 1.
Priority(a) ==
    CASE a = "temp_controller" -> 2
      [] a = "terminal" -> 2
      [] a = "storage" -> 1
      [] a = "blinky" -> 1
      [] a = "usart2" -> 1

\* #[task(shared = [..])]
Users(r) ==
    CASE r = "cooler" -> {"temp_controller", "terminal"}
      [] r = "resolution" -> {"temp_controller", "terminal"}
      [] r = "storage" -> {"storage", "terminal"}
      [] r = "usart" -> {"terminal", "usart2"}
      [] r = "buffer" -> {"terminal", "usart2"}

Max(xs) == CHOOSE x \in xs : \A y \in xs : y <= x

\* The ceiling of a resource: the highest priority among its users.
CeilingNone(r) == 0

Ceiling(r) == Max({Priority(a) : a \in Users(r)})

\* A new activity takes the core from what runs at the level.
PreemptsEqual(p, level) == p >= level

Preempts(p, level) == p > level

\* Leaving the lock closure of r.
ReleaseNothing(held, a, r) == held

Release(held, a, r) == held \ {<<a, r>>}

\* The level below which nothing is dispatched.
Level ==
    Max({0} \cup {Priority(sStack[i]) : i \in 1..Len(sStack)}
            \cup {Ceiling(h[2]) : h \in sHeld})

S(op, res, next) == [op |-> op, res |-> res, next |-> next]

\* The statements of an activity that matter to the scheduler: lock closures,
\* awaits, the operations of a bus transaction, spawn and return.  next is
\* the set of statements that may follow.  Three statements leave the closure
\* of the buffer with an effect on it: get_line takes a line out (the first
\* of next follows) or finds none (the last of next follows), push may have
\* completed a line, clear empties the buffer.
Program(a) ==
    CASE a = "temp_controller" ->
            <<S("lock", "resolution", {2}), S("unlock", "resolution", {3}),
              S("bus_first", "", {4}), S("bus", "", {5}),
              S("bus_last", "", {6}), S("await", "", {7, 9}),
              S("lock", "cooler", {8}), S("unlock", "cooler", {9}),
              S("await", "", {1})>>
      [] a = "terminal" ->
            <<S("lock", "buffer", {2}), S("get_line", "buffer", {3, 4}),
              S("match", "", {1, 5, 7, 9, 13}),
              S("return", "", {1}),
              S("lock", "resolution", {6}), S("unlock", "resolution", {1}),
              S("lock", "cooler", {8}), S("unlock", "cooler", {1}),
              S("lock", "storage", {10}), S("lock", "usart", {11}),
              S("unlock", "usart", {12}), S("unlock", "storage", {1}),
              S("await", "", {14}),
              S("lock", "usart", {15}), S("unlock", "usart", {16}),
              S("lock", "buffer", {17}), S("clear", "buffer", {1, 13})>>
      [] a = "storage" ->
            <<S("await", "", {2}), S("lock", "storage", {3}),
              S("unlock", "storage", {1})>>
      [] a = "usart2" ->
            <<S("lock", "usart", {2}), S("lock", "buffer", {3}),
              S("push", "buffer", {4}), S("unlock", "usart", {5}),
              S("spawn", "terminal", {6}), S("return", "", {1})>>
      [] a = "blinky" ->
            <<S("toggle", "", {2}), S("await", "", {1})>>

Statement(a) == Program(a)[sPc[a]]

\* The statements that end a lock closure.
Unlocks == {"unlock", "get_line", "push", "clear"}

\* The statements that may follow st in the present state.
Follows(st) ==
    IF st.op = "get_line"
    THEN IF sLines > 0 THEN {x \in st.next : \A y \in st.next : x <= y}
         ELSE {Max(st.next)}
    ELSE st.next

\* The activity on the core.
OnCore(a) == sStack # <<>> /\ sStack[Len(sStack)] = a

\* Something that is ready goes before what runs now.
DispatchDue == \E b \in Acts : sStatus[b] = "ready" /\ Preempts(Priority(b), Level)

\* A step of an activity other than temp_controller inside a bus transaction.
Foreign(a) == IF busOpen /\ a # "temp_controller" THEN 1 ELSE foreign

notSched ==
    <<devices, lineStuckLow, searchVars, appVars, wireVars, roundVars,
      sensorVars, consoleVars, pidVars,
      storeVars>>

\* After init: temp_controller, storage and blinky are spawned, idle pends
\* USART2, terminal waits to be spawned.
SchedInit ==
    /\ StoreIdle
    /\ appPc = "off"
    /\ AppFresh
    /\ busTime = 0
    /\ devices = {}
    /\ lineStuckLow = FALSE
    /\ SearchIdle
    /\ WireIdle
    /\ RoundIdle
    /\ SensorIdle
    /\ ConsoleIdle
    /\ PidIdle
    /\ sPc = [a \in Acts |-> 1]
    /\ sStatus = [a \in Acts |-> IF a = "terminal" THEN "idle" ELSE "ready"]
    /\ sStack = <<>>
    /\ sHeld = {}
    /\ sLines = 0
    /\ burst = 0
    /\ busOpen = FALSE
    /\ foreign = 0

\* The USART2 interrupt is raised.
Pend ==
    /\ sStatus["usart2"] = "idle"
    /\ sStatus' = [sStatus EXCEPT !["usart2"] = "ready"]
    /\ burst' = Min(burst + 1, MaxBurst)
    /\ UNCHANGED <<sPc, sStack, sHeld, sLines, busOpen, foreign>>
    /\ UNCHANGED notSched

\* What a waiting task awaits arrives: its deadline, or room or a value in
\* its channel.
Wake(a) ==
    /\ sStatus[a] = "waiting"
    /\ sStatus' = [sStatus EXCEPT ![a] = "ready"]
    /\ burst' = Min(burst + 1, MaxBurst)
    /\ UNCHANGED <<sPc, sStack, sHeld, sLines, busOpen, foreign>>
    /\ UNCHANGED notSched

\* A ready activity takes the core.
Dispatch(a) ==
    /\ sStatus[a] = "ready"
    /\ Preempts(Priority(a), Level)
    /\ sStatus' = [sStatus EXCEPT ![a] = "active"]
    /\ sStack' = Append(sStack, a)
    /\ foreign' = Foreign(a)
    /\ UNCHANGED <<sPc, sHeld, sLines, burst, busOpen>>
    /\ UNCHANGED notSched

\* The running activity runs its next statement.
Step(a) ==
    /\ OnCore(a)
    /\ ~DispatchDue
    /\ \E st \in {Statement(a)} :
        /\ sPc' \in {[sPc EXCEPT ![a] = n] : n \in Follows(st)}
        /\ sHeld' = CASE st.op = "lock" -> sHeld \cup {<<a, st.res>>}
                      [] st.op \in Unlocks -> Release(sHeld, a, st.res)
                      [] OTHER -> sHeld
        /\ sLines' \in
            CASE st.op = "get_line" -> {IF sLines > 0 THEN sLines - 1 ELSE 0}
              [] st.op = "push" -> {sLines, Min(sLines + 1, MaxLines)}
              [] st.op = "clear" -> {0}
              [] OTHER -> {sLines}
        /\ busOpen' = CASE st.op = "bus_first" -> TRUE
                        [] st.op = "bus_last" -> FALSE
                        [] OTHER -> busOpen
        /\ sStack' = IF st.op \in {"await", "return"}
                     THEN SubSeq(sStack, 1, Len(sStack) - 1) ELSE sStack
        /\ sStatus' =
            CASE st.op = "await" -> [sStatus EXCEPT ![a] = "waiting"]
              [] st.op = "return" -> [sStatus EXCEPT ![a] = "idle"]
              [] st.op = "spawn" /\ sStatus[st.res] = "idle" ->
                    [sStatus EXCEPT ![st.res] = "ready"]
              [] OTHER -> sStatus
    /\ burst' = IF sStack' = <<>> /\ \A b \in Acts : sStatus'[b] # "ready"
                THEN 0 ELSE burst
    /\ foreign' = Foreign(a)
    /\ UNCHANGED notSched

SchedNext ==
    \/ Pend
    \/ \E a \in Acts : Wake(a)
    \/ \E a \in Acts : Dispatch(a)
    \/ \E a \in Acts : Step(a)

SpecSched == SchedInit /\ [][SchedNext]_vars

\* The load leaves the core idle again and again: the control period is 2 s,
\* the heartbeat 500 ms and the console is typed at, against milliseconds of
\* work per event.  At most MaxBurst interrupts and wake-ups arrive before
\* the core is idle again.
Paced == burst < MaxBurst

PacedNext ==
    \/ Paced /\ Pend
    \/ \E a \in Acts : Paced /\ Wake(a)
    \/ \E a \in Acts : Dispatch(a)
    \/ \E a \in Acts : Step(a)

\* The core runs what is due: the dispatch of a ready activity that is above
\* the level, and the next statement of the running one.
FairSpecSched ==
    /\ SchedInit
    /\ [][PacedNext]_vars
    /\ \A a \in Acts : WF_vars(Dispatch(a) \/ Step(a))

(***************************************************************************)
(* Properties of the scheduling.                                           *)
(***************************************************************************)
Holders(r) == {a \in Acts : <<a, r>> \in sHeld}

\* C11: no two activities are inside lock closures of the same resource at
\* once, and no activity is active above an activity that holds a resource
\* it uses: the holder of a resource is not preempted by another user of it.
C11_MutualExclusion ==
    /\ \A r \in Resources : Cardinality(Holders(r)) <= 1
    /\ \A i \in 1..Len(sStack), j \in 1..Len(sStack) :
        i < j => \A r \in Resources :
                    sStack[i] \in Holders(r) => sStack[j] \notin Users(r)
    /\ \A r \in Resources : Holders(r) \subseteq Users(r)

\* A holder of lower priority keeps the core although a user of the same
\* resource with higher priority is ready.
C11_Witness ==
    /\ <<"usart2", "buffer">> \in sHeld
    /\ OnCore("usart2")
    /\ sStatus["terminal"] = "ready"
    /\ sPc["terminal"] = 14

\* a is at the entry of a lock closure with the core given to it or due to
\* it, or inside a lock closure.
AtLock(a) == sStatus[a] \in {"ready", "active"} /\ Statement(a).op = "lock"

InLock(a) == \E r \in Resources : <<a, r>> \in sHeld

\* C12: an activity that runs into a lock closure never finds the resource
\* held by another activity, so entering never waits; every activity that is
\* at the entry of a lock closure or inside one gets to a point where it is
\* neither, the nested closures of terminal (storage, then usart) and of the
\* USART2 handler (usart and buffer) included.
C12_NoDeadlock ==
    /\ [](\A a \in Acts :
            (OnCore(a) /\ Statement(a).op = "lock") =>
                Holders(Statement(a).res) = {})
    /\ \A a \in Acts : (AtLock(a) \/ InLock(a)) ~> ~(AtLock(a) \/ InLock(a))

\* terminal is inside both of its nested closures, having preempted the
\* USART2 handler, while temp_controller and storage are ready, storage at
\* the entry of its lock closure.
C12_Witness ==
    /\ <<"terminal", "storage">> \in sHeld
    /\ <<"terminal", "usart">> \in sHeld
    /\ sStack = <<"usart2", "terminal">>
    /\ sStatus["temp_controller"] = "ready"
    /\ AtLock("storage")

\* C14: temp_controller and terminal are never active together (one takes
\* the core only after the other has reached an await or returned), and
\* between the first and the last operation of a bus transaction of
\* temp_controller no other task and no USART2 handler runs a step or is
\* dispatched.
C14_BusTransactionUnbroken ==
    /\ foreign = 0
    /\ busOpen => OnCore("temp_controller")
    /\ ~(\E i \in 1..Len(sStack), j \in 1..Len(sStack) :
            sStack[i] = "temp_controller" /\ sStack[j] = "terminal")

\* A transaction is open while terminal and the USART2 handler are ready and
\* storage is preempted.
C14_Witness ==
    /\ busOpen
    /\ sPc["temp_controller"] = 5
    /\ sStatus["terminal"] = "ready"
    /\ sStatus["usart2"] = "ready"
    /\ sStatus["storage"] = "active"

(***************************************************************************)
(* search() round by round: the harness calls search() again and again on  *)
(* one DeviceSearch and follows each call through the rounds of its loop.  *)
(***************************************************************************)
notRound ==
    <<devices, lineStuckLow, yielded, finished, passSteady, passCalls,
      callTick, restarted, fresh, freshResult, walk, appVars, wireVars,
      schedVars, sensorVars, consoleVars, pidVars,
      storeVars>>

\* commands::SEARCH_NORMAL, the Search ROM command
SEARCH_NORMAL == 240

\* The bus operations of one round of the loop: the two read_bit calls,
\* then, unless both read 1 and the loop is left, write_bit of the direction
RoundOps(id_bit, cmp_id_bit, broke, sd) ==
    <<BusOp("read_bit", 0, BitArg(id_bit)),
      BusOp("read_bit", 0, BitArg(cmp_id_bit))>>
    \o (IF broke THEN <<>> ELSE <<BusOp("write_bit", BitArg(sd), "Ok")>>)

\* Ok(Some(Address(u64::from_le_bytes(self.rom_no)))): the u64 returned
AddressOf(r) == FromLeBytes(r.addr)

\* Bit k (0..63, 0 the least significant) of a u64 held as four 16-bit
\* words, most significant first
U64Bit(a, k) == (a[4 - (k \div 16)] \div (2 ^ (k % 16))) % 2 = 1

RoundInit ==
    /\ StoreIdle
    /\ appPc = "off"
    /\ AppFresh
    /\ BenchIdle
    /\ busTime = 0
    /\ devices \in DeviceSets
    /\ lineStuckLow \in BOOLEAN
    /\ SearchIdle

\* search() up to its loop: a call that finds last_device_flag set or whose
\* reset fails returns at once, any other enters the loop.
RoundCall ==
    /\ ~lpIn
    /\ \E drop \in DropPositions :
        IF last_device_flag \/ Reset(lineStuckLow, devices # {}) # "Ok"
        THEN /\ \E r \in {Search(Cursor, devices, lineStuckLow, drop)} :
                /\ last_discrepancy' = r.cursor.last_discrepancy
                /\ last_family_discrepancy' = r.cursor.last_family_discrepancy
                /\ last_device_flag' = r.cursor.last_device_flag
                /\ rom_no' = r.cursor.rom_no
                /\ result' = r.result
             /\ lp' = NoLoop
             /\ lpDrop' = 0
             /\ lpLast' = NoRound
             /\ lpBus' = IF last_device_flag THEN <<>>
                         ELSE <<BusOp("reset", 0,
                                      Reset(lineStuckLow, devices # {}))>>
             /\ UNCHANGED lpIn
        ELSE /\ lpIn' = TRUE
             /\ lp' = SearchStart(Cursor, devices)
             /\ lpDrop' = drop
             /\ lpLast' = NoRound
             /\ lpBus' = <<BusOp("reset", 0, "Ok"),
                           BusOp("write_byte", SEARCH_NORMAL, "Ok")>>
             /\ UNCHANGED <<last_discrepancy, last_family_discrepancy,
                            last_device_flag, rom_no, result>>
    /\ UNCHANGED notRound

\* One round of while rom_byte_number < 8 { ... }
RoundStep ==
    /\ lpIn
    /\ lp.rom_byte_number < 8
    /\ ~lp.broke
    /\ \E part \in {BusParticipants(lp.part, lp.id_bit_number, lpDrop)} :
       \E t \in {SearchRound(lp, part, last_discrepancy)} :
        /\ lp' = t
        /\ lpLast' =
            [pos |-> lp.id_bit_number,
             id |-> BusIdBit(part, lp.id_bit_number),
             cmp |-> BusCmpIdBit(part, lp.id_bit_number),
             prev |-> MaskBit(lp.rom_no[lp.rom_byte_number + 1],
                              lp.rom_byte_mask),
             stored |-> MaskBit(t.rom_no[lp.rom_byte_number + 1],
                                lp.rom_byte_mask),
             written |-> t.wrote,
             zero_before |-> lp.last_zero,
             last_zero |-> t.last_zero,
             broke |-> t.broke]
        /\ lpBus' = lpBus \o RoundOps(BusIdBit(part, lp.id_bit_number),
                                      BusCmpIdBit(part, lp.id_bit_number),
                                      t.broke, t.wrote)
    /\ UNCHANGED <<lpIn, lpDrop, last_discrepancy, last_family_discrepancy,
                   last_device_flag, rom_no, result>>
    /\ UNCHANGED notRound

\* search() after its loop
RoundEnd ==
    /\ lpIn
    /\ lp.rom_byte_number >= 8 \/ lp.broke
    /\ \E r \in {SearchEnd(Cursor, lp)} :
        /\ last_discrepancy' = r.cursor.last_discrepancy
        /\ last_family_discrepancy' = r.cursor.last_family_discrepancy
        /\ last_device_flag' = r.cursor.last_device_flag
        /\ rom_no' = r.cursor.rom_no
        /\ result' = r.result
    /\ lpIn' = FALSE
    /\ UNCHANGED <<lp, lpDrop, lpLast, lpBus>>
    /\ UNCHANGED notRound

RoundNext ==
    \/ RoundCall
    \/ RoundStep
    \/ RoundEnd

SpecRound == RoundInit /\ [][RoundNext]_vars

(***************************************************************************)
(* Properties of the rounds.                                               *)
(***************************************************************************)
\* The last round wrote a bit; its probe bits were both 0.
RoundWrote == lpIn /\ lpLast.pos > 0 /\ ~lpLast.broke

RoundBranched == RoundWrote /\ ~lpLast.id /\ ~lpLast.cmp

\* C21: in every round of search() that writes a bit: the probe bits are not
\* both 1; when they differ the direction is the first probe bit; when both
\* are 0 the direction is the bit rom_no already held at the position if the
\* position is below last_discrepancy, 1 if it equals it and 0 if it is
\* above it; and the bit written to the bus is the bit rom_no holds at the
\* position after the round.
C21_DirectionRule ==
    RoundWrote =>
        /\ ~(lpLast.id /\ lpLast.cmp)
        /\ (lpLast.id # lpLast.cmp) => (lpLast.written = lpLast.id)
        /\ (RoundBranched /\ lpLast.pos < last_discrepancy) =>
                (lpLast.written = lpLast.prev)
        /\ (RoundBranched /\ lpLast.pos = last_discrepancy) => lpLast.written
        /\ (RoundBranched /\ lpLast.pos > last_discrepancy) => ~lpLast.written
        /\ lpLast.written = lpLast.stored

\* A branch point below last_discrepancy at which the 1 of the pass before
\* is replayed.
C21_Witness ==
    /\ RoundBranched
    /\ lpLast.pos < last_discrepancy
    /\ lpLast.prev
    /\ lpLast.written
    /\ Cardinality(devices) = 3

\* C22 as stated: at a branch point (both probe bits 0) whose position equals
\* last_discrepancy, 1 is chosen and the position is recorded as last_zero.
C22_EqualBranchRecordsLastZero ==
    (RoundBranched /\ lpLast.pos = last_discrepancy) =>
        (lpLast.written /\ lpLast.last_zero = lpLast.pos)

\* C22 amended: at a branch point whose position equals last_discrepancy, 1
\* is chosen and last_zero is left as it was, below the position; last_zero
\* is set to the position exactly in the rounds where both probe bits are 0
\* and 0 is chosen; and a call that has walked all 64 positions and returns
\* an address leaves last_discrepancy at the last_zero of its loop.
C22_LastZeroIsLastZeroPicked ==
    /\ (RoundBranched /\ lpLast.pos = last_discrepancy) =>
        /\ lpLast.written
        /\ lpLast.last_zero = lpLast.zero_before
        /\ lpLast.last_zero < lpLast.pos
    /\ RoundWrote =>
        lpLast.last_zero =
            IF ~lpLast.id /\ ~lpLast.cmp /\ ~lpLast.written THEN lpLast.pos
            ELSE lpLast.zero_before
    /\ (~lpIn /\ lp.id_bit_number >= 65 /\ result.kind = "Some") =>
        last_discrepancy = lp.last_zero

\* The branch point at position 9 is last_discrepancy, 1 is chosen there, and
\* last_zero stays at a branch point of the family byte where 0 was replayed.
C22_Witness ==
    /\ RoundBranched
    /\ lpLast.pos = 9
    /\ last_discrepancy = 9
    /\ lpLast.written
    /\ lpLast.last_zero \in 1..8

(***************************************************************************)
(* The sensor driver, byte by byte.  The device keeps the eight scratchpad *)
(* bytes <<temperature LSB, temperature MSB, TH, TL, configuration, 0xFF,  *)
(* reserved, 0x10>> and sends their CRC as the ninth.  A transaction takes *)
(* a line fault from LineFaults: the line stuck low, no presence pulse     *)
(* after the reset, one bit of the bytes read flipped on the line, or no   *)
(* presence pulse at the reset that ends write_scratchpad.                 *)
(***************************************************************************)
WRITE_SCRATCHPAD == 78

\* a ^ b on bytes, bit by bit
XorBits(a, b) ==
    LET bit(k) == (((a \div Pow2(k)) + (b \div Pow2(k))) % 2) * Pow2(k)
    IN  bit(0) + bit(1) + bit(2) + bit(3) + bit(4) + bit(5) + bit(6) + bit(7)

\* a ^ b on bytes, tabulated
XorTable == [a \in 0..255 |-> [b \in 0..255 |-> XorBits(a, b)]]

XorU8(a, b) == XorTable[a][b]

\* The reflected form of the polynomial x^8 + x^5 + x^4 + 1
CRC8_POLY == 140

\* One shift of the CRC register, least significant bit first
Crc8Shift(crc) ==
    IF crc % 2 = 1 THEN XorU8(crc \div 2, CRC8_POLY) ELSE crc \div 2

RECURSIVE Crc8Shifts(_, _)
Crc8Shifts(crc, n) == IF n = 0 THEN crc ELSE Crc8Shifts(Crc8Shift(crc), n - 1)

\* The CRC register after the eight shifts of one byte, for each value the
\* register holds once the byte is folded in
Crc8Byte == [x \in 0..255 |-> Crc8Shifts(x, 8)]

\* crc8: the Dallas/Maxim CRC-8 of a byte sequence, from 0
RECURSIVE Crc8(_)
Crc8(bytes) ==
    IF bytes = <<>> THEN 0
    ELSE Crc8Byte[XorU8(Crc8(SubSeq(bytes, 1, Len(bytes) - 1)),
                        bytes[Len(bytes)])]

\* check_crc8: the CRC of all bytes but the last equals the last
CheckCrc8(buf) == Crc8(SubSeq(buf, 1, Len(buf) - 1)) = buf[Len(buf)]

\* The nine bytes the device sends for READ_SCRATCHPAD
Scratchpad(p) == p \o <<Crc8(p)>>

LineFaults ==
    {"none", "stuck_low", "no_presence", "flip_config", "flip_crc",
     "late_no_presence"}

\* What the master reads of the bytes sent: the fault flips bit 5 of the
\* configuration byte or bit 7 of the CRC
Received(bytes, f) ==
    CASE f = "flip_config" -> [bytes EXCEPT ![5] = XorU8(@, 32)]
      [] f = "flip_crc" -> [bytes EXCEPT ![9] = XorU8(@, 128)]
      [] OTHER -> bytes

\* One entry of the log: a command sent, with what send_command returned;
\* the bytes that came back, with whether their CRC is right; the bytes
\* written after WRITE_SCRATCHPAD; or a wait
Sent(cmd, f) ==
    [cmd |-> cmd, err |-> SendCommand(f), bytes |-> <<>>, crcOk |-> TRUE,
     ms |-> 0]
Read(bytes, f) ==
    [cmd |-> READ_SCRATCHPAD, err |-> SendCommand(f), bytes |-> bytes,
     crcOk |-> CheckCrc8(bytes), ms |-> 0]
Wrote(data, f) ==
    [cmd |-> WRITE_SCRATCHPAD, err |-> SendCommand(f), bytes |-> data,
     crcOk |-> TRUE, ms |-> 0]
Waited(ms) ==
    [cmd |-> 0, err |-> "Ok", bytes |-> <<>>, crcOk |-> TRUE, ms |-> ms]

\* What a driver operation yields: its result, the device's scratchpad
\* afterwards and the log of what it did on the bus
Outcome(ret, p, log) == [ret |-> ret, pad |-> p, log |-> log]

\* The buffer check of read_scratchpad that lets every buffer through
ScratchpadCheckedNever(buf) == OkResult(buf)

\* read_scratchpad, after the nine bytes are in
ScratchpadChecked(buf) ==
    IF ~CheckCrc8(buf) THEN ErrResult("CrcMismatch") ELSE OkResult(buf)

\* Ds18b20::read_scratchpad
ReadScratchpadBytes(p, f) ==
    IF SendCommand(f) # "Ok"
    THEN Outcome(ErrResult(SendCommand(f)), p, <<Sent(READ_SCRATCHPAD, f)>>)
    ELSE Bind(Received(Scratchpad(p), f),
              LAMBDA buf : Outcome(ScratchpadChecked(buf), p, <<Read(buf, f)>>))

\* Ds18b20::write_scratchpad: TH, TL and the configuration byte
WriteScratchpadBytes(p, data, f) ==
    IF SendCommand(f) # "Ok"
    THEN Outcome(ErrResult(SendCommand(f)), p, <<Sent(WRITE_SCRATCHPAD, f)>>)
    ELSE Outcome(IF Reset(FALSE, f # "late_no_presence") = "Ok"
                 THEN OkResult(0)
                 ELSE ErrResult(Reset(FALSE, f # "late_no_presence")),
                 [p EXCEPT ![3] = data[1], ![4] = data[2], ![5] = data[3]],
                 <<Wrote(data, f)>>)

\* Ds18b20::resolution
ResolutionBytes(p, f) ==
    Bind(ReadScratchpadBytes(p, f),
         LAMBDA r : IF ~r.ret.ok THEN r
                    ELSE IF FromConfigRegister(r.ret.val[5]) = "None"
                         THEN Outcome(ErrResult("UnexpectedResponse"), p, r.log)
                         ELSE Outcome(OkResult(FromConfigRegister(r.ret.val[5])),
                                      p, r.log))

\* set_resolution without buf[4] = res.to_config_register()
SetResolutionBytesKeepsConfig(p, res, f1, f2) ==
    Bind(ReadScratchpadBytes(p, f1),
         LAMBDA r : IF ~r.ret.ok THEN r
                    ELSE Bind(WriteScratchpadBytes(p, <<r.ret.val[3], r.ret.val[4],
                                                        r.ret.val[5]>>, f2),
                              LAMBDA w : Outcome(w.ret, w.pad, r.log \o w.log)))

\* set_resolution writing the alarm bytes a device is shipped with
SetResolutionBytesDefaultAlarms(p, res, f1, f2) ==
    Bind(ReadScratchpadBytes(p, f1),
         LAMBDA r : IF ~r.ret.ok THEN r
                    ELSE Bind(WriteScratchpadBytes(p, <<75, 70,
                                                        ToConfigRegister(res)>>, f2),
                              LAMBDA w : Outcome(w.ret, w.pad, r.log \o w.log)))

\* Ds18b20::set_resolution
SetResolutionBytes(p, res, f1, f2) ==
    Bind(ReadScratchpadBytes(p, f1),
         LAMBDA r : IF ~r.ret.ok THEN r
                    ELSE Bind(WriteScratchpadBytes(p, <<r.ret.val[3], r.ret.val[4],
                                                        ToConfigRegister(res)>>, f2),
                              LAMBDA w : Outcome(w.ret, w.pad, r.log \o w.log)))

\* Ds18b20::start_measurement
StartMeasurementSent(p, f) ==
    Outcome(IF SendCommand(f) = "Ok" THEN OkResult(0)
            ELSE ErrResult(SendCommand(f)), p, <<Sent(CONVERT_T, f)>>)

\* read_data: buf[0] &= mask
MaskLsb(b, res) ==
    CASE res = "Bits9" -> b - (b % 8) [] res = "Bits10" -> b - (b % 4)
      [] res = "Bits11" -> b - (b % 2) [] res = "Bits12" -> b

\* i16::from_le_bytes read as an unsigned word
FromLeBytesU16(b0, b1) == b1 * 256 + b0

\* i16::from_le_bytes, widened to i32
FromLeBytesI16(b0, b1) ==
    IF b1 * 256 + b0 >= 32768 THEN b1 * 256 + b0 - 65536 ELSE b1 * 256 + b0

\* Ds18b20::read_data: the Temperature, as its bits (1/16 degree)
ReadDataBytes(p, f) ==
    Bind(ReadScratchpadBytes(p, f),
         LAMBDA r : IF ~r.ret.ok THEN r
                    ELSE IF FromConfigRegister(r.ret.val[5]) = "None"
                         THEN Outcome(ErrResult("UnexpectedResponse"), p, r.log)
                         ELSE Outcome(OkResult(FromLeBytesI16(
                                          MaskLsb(r.ret.val[1],
                                                  FromConfigRegister(r.ret.val[5])),
                                          r.ret.val[2])),
                                      p, r.log))

\* measure: the delay it asks of Mono::delay, had it not looked at the
\* resolution read
MeasureDelayShortest(res) == ConversionTime("Bits9")

\* measure: let d = u64::from(self.resolution(wire, delay)?.conversion_time())
MeasureDelay(res) == ConversionTime(res)

\* The temperature bytes a conversion can produce: 85.0, -6.9375 and 10.4375
\* degrees
SensedTemps == {<<80, 5>>, <<145, 255>>, <<167, 0>>}

\* The configuration bytes a device can hold when the driver meets it: the
\* four of the data sheet and two that name no resolution
DeviceConfigs == {31, 63, 95, 127, 126, 255}

\* The scratchpad with temperature bytes t and configuration byte cfg
PadOf(t, cfg) == <<t[1], t[2], 75, 70, cfg, 255, 12, 16>>

\* The scratchpad p with the alarm bytes TH and TL set to 125 and -55
WithAlarms(p) == [p EXCEPT ![3] = 125, ![4] = 201]

\* The scratchpads a device can hold when the driver meets it: the alarm
\* bytes as shipped, or set by a user on a device that has not converted
DevicePads ==
    {PadOf(t, cfg) : t \in SensedTemps, cfg \in DeviceConfigs}
        \cup {WithAlarms(PadOf(<<80, 5>>, cfg)) : cfg \in {127, 126}}

\* The faults a transaction that reads, that only commands and that writes
\* can meet
ReadFaults == LineFaults \ {"late_no_presence"}
CommandFaults == {"none", "stuck_low", "no_presence"}
WriteFaults == CommandFaults \cup {"late_no_presence"}

\* The faults of the two transactions of a call that reads first: at most
\* one is met
FaultPlans(second) ==
    {<<f1, f2>> \in ReadFaults \X second : f1 = "none" \/ f2 = "none"}

\* The time the device needs for the conversion under way
DeviceNeeds(p) ==
    IF FromConfigRegister(p[5]) = "None" THEN ConversionTime("Bits12")
    ELSE ConversionTime(FromConfigRegister(p[5]))

\* The scratchpad once elapsed milliseconds have passed since CONVERT_T
Converted(p, next, elapsed) ==
    IF next # <<>> /\ elapsed >= DeviceNeeds(p)
    THEN [p EXCEPT ![1] = next[1], ![2] = next[2]]
    ELSE p

NoProbe == [reg |-> 0, res |-> "None"]

notSensor ==
    <<devices, lineStuckLow, searchVars, appVars, wireVars, schedVars, roundVars,
      consoleVars, pidVars,
      storeVars>>

SensorInit ==
    /\ StoreIdle
    /\ appPc = "off" /\ AppFresh
    /\ busTime = 0
    /\ devices = {}
    /\ lineStuckLow = FALSE
    /\ SearchIdle
    /\ WireIdle
    /\ SchedIdle
    /\ RoundIdle
    /\ ConsoleIdle
    /\ PidIdle
    /\ pad \in DevicePads
    /\ padNext = <<>>
    /\ drvOp = "none"
    /\ drvArg = "None"
    /\ drvRet = OkResult(0)
    /\ drvLog = <<>>
    /\ drvWait = FALSE
    /\ drvPrev = "None"
    /\ cfgProbe = NoProbe

\* What the call that starts now leaves in drvPrev
JustSet ==
    IF drvOp = "set_resolution" /\ drvRet.ok THEN drvArg ELSE "None"

\* The driver is between two calls
DriverFree == ~drvWait /\ drvOp # "from_config_register"

\* A driver operation that runs to its end in one call
Returned(op, arg, o) ==
    /\ drvOp' = op
    /\ drvArg' = arg
    /\ drvRet' = o.ret
    /\ drvLog' = o.log
    /\ pad' = o.pad
    /\ drvPrev' = JustSet
    /\ cfgProbe' = NoProbe
    /\ UNCHANGED <<padNext, drvWait, notSensor>>

ReadScratchpadCall ==
    /\ DriverFree
    /\ \E f \in ReadFaults :
          \E o \in {ReadScratchpadBytes(pad, f)} :
             Returned("read_scratchpad", "None", o)

ResolutionCall ==
    /\ DriverFree
    /\ \E f \in ReadFaults :
          \E o \in {ResolutionBytes(pad, f)} : Returned("resolution", "None", o)

SetResolutionCall ==
    /\ DriverFree
    /\ \E res \in Resolutions, fs \in FaultPlans(WriteFaults) :
          \E o \in {SetResolutionBytes(pad, res, fs[1], fs[2])} :
             Returned("set_resolution", res, o)

ReadDataCall ==
    /\ DriverFree
    /\ \E f \in ReadFaults :
          \E o \in {ReadDataBytes(pad, f)} : Returned("read_data", "None", o)

\* start_measurement: a device that gets CONVERT_T starts a conversion
StartMeasurementCall ==
    /\ DriverFree
    /\ \E f \in CommandFaults, t \in SensedTemps :
          \E o \in {StartMeasurementSent(pad, f)} :
             /\ drvOp' = "start_measurement"
             /\ drvArg' = "None"
             /\ drvRet' = o.ret
             /\ drvLog' = o.log
             /\ padNext' = IF o.ret.ok THEN t ELSE padNext
             /\ drvPrev' = JustSet
             /\ cfgProbe' = NoProbe
             /\ UNCHANGED <<pad, drvWait, notSensor>>

\* The device ends a conversion nobody waits for
DeviceConverts ==
    /\ ~drvWait
    /\ padNext # <<>>
    /\ pad' = Converted(pad, padNext, DeviceNeeds(pad))
    /\ padNext' = <<>>
    /\ UNCHANGED <<drvOp, drvArg, drvRet, drvLog, drvWait, drvPrev, cfgProbe,
                   notSensor>>

\* measure, up to Mono::delay(d.millis()).await
MeasureCall ==
    /\ DriverFree
    /\ \E fs \in FaultPlans(CommandFaults), t \in SensedTemps :
          \E r \in {ResolutionBytes(pad, fs[1])} :
             \E s \in {StartMeasurementSent(pad, fs[2])} :
                /\ drvOp' = "measure"
                /\ drvPrev' = JustSet
                /\ cfgProbe' = NoProbe
                /\ IF ~r.ret.ok
                   THEN /\ drvRet' = r.ret
                        /\ drvLog' = r.log
                        /\ drvArg' = "None"
                        /\ UNCHANGED <<padNext, drvWait>>
                   ELSE IF ~s.ret.ok
                   THEN /\ drvRet' = s.ret
                        /\ drvLog' = r.log \o s.log
                        /\ drvArg' = r.ret.val
                        /\ UNCHANGED <<padNext, drvWait>>
                   ELSE /\ drvRet' = OkResult(0)
                        /\ drvLog' = r.log \o s.log
                        /\ drvArg' = r.ret.val
                        /\ padNext' = t
                        /\ drvWait' = TRUE
                /\ UNCHANGED <<pad, notSensor>>

\* measure, from the end of the delay: the timer wakes the task after d
\* milliseconds or later
MeasureResume ==
    /\ drvWait
    /\ \E late \in {0, 1}, f \in ReadFaults :
          \E elapsed \in {MeasureDelay(drvArg) + late} :
             \E o \in {ReadDataBytes(Converted(pad, padNext, elapsed), f)} :
                /\ drvRet' = o.ret
                /\ drvLog' = drvLog \o <<Waited(elapsed)>> \o o.log
                /\ pad' = o.pad
                /\ padNext' = IF o.pad = pad /\ padNext # <<pad[1], pad[2]>>
                              THEN padNext ELSE <<>>
                /\ drvWait' = FALSE
                /\ UNCHANGED <<drvOp, drvArg, drvPrev, cfgProbe, notSensor>>

\* Resolution::from_config_register on any byte, before the driver is used
FromConfigRegisterCall ==
    /\ drvOp = "none"
    /\ \E reg \in 0..255 :
          /\ cfgProbe' = [reg |-> reg, res |-> FromConfigRegister(reg)]
          /\ drvOp' = "from_config_register"
          /\ drvArg' = "None"
          /\ drvRet' = OkResult(0)
          /\ drvLog' = <<>>
          /\ UNCHANGED <<pad, padNext, drvWait, drvPrev, notSensor>>

SensorNext ==
    \/ ReadScratchpadCall
    \/ ResolutionCall
    \/ SetResolutionCall
    \/ ReadDataCall
    \/ StartMeasurementCall
    \/ DeviceConverts
    \/ MeasureCall
    \/ MeasureResume
    \/ FromConfigRegisterCall

SpecSensor == SensorInit /\ [][SensorNext]_vars

(***************************************************************************)
(* Properties of the sensor driver.                                        *)
(***************************************************************************)

\* C25: to_config_register gives 0x1F, 0x3F, 0x5F, 0x7F for 9, 10, 11 and 12
\* bits; from_config_register undoes it for all four resolutions and gives
\* None for each of the other 252 bytes; conversion_time gives 94, 188, 375
\* and 750 ms.
C25_ResolutionBijection ==
    /\ ToConfigRegister("Bits9") = 31 /\ ToConfigRegister("Bits10") = 63
    /\ ToConfigRegister("Bits11") = 95 /\ ToConfigRegister("Bits12") = 127
    /\ \A res \in Resolutions : FromConfigRegister(ToConfigRegister(res)) = res
    /\ ConversionTime("Bits9") = 94 /\ ConversionTime("Bits10") = 188
    /\ ConversionTime("Bits11") = 375 /\ ConversionTime("Bits12") = 750
    /\ drvOp = "from_config_register" =>
          IF cfgProbe.reg \in {31, 63, 95, 127}
          THEN /\ cfgProbe.res \in Resolutions
               /\ ToConfigRegister(cfgProbe.res) = cfgProbe.reg
          ELSE cfgProbe.res = "None"

\* from_config_register met 0x9F, the 9-bit pattern with bit 7 set
C25_Witness ==
    /\ drvOp = "from_config_register"
    /\ cfgProbe = [reg |-> 159, res |-> "None"]

\* The log entries that are READ_SCRATCHPAD transactions
Reads == {i \in DOMAIN drvLog : drvLog[i].cmd = READ_SCRATCHPAD}

\* The log entries whose nine bytes came back with a wrong CRC
BadReads == {i \in Reads : drvLog[i].err = "Ok" /\ ~drvLog[i].crcOk}

\* C23: when the nine bytes read fail the CRC check, read_scratchpad returns
\* CrcMismatch and no data after exactly one READ_SCRATCHPAD transaction;
\* resolution(), read_data() and set_resolution() return that CrcMismatch,
\* and set_resolution sends no WRITE_SCRATCHPAD.
C23_CrcMismatchEndsTheCall ==
    (drvOp \in {"read_scratchpad", "resolution", "read_data", "set_resolution"}
        /\ BadReads # {}) =>
       /\ ~drvRet.ok
       /\ drvRet.err = "CrcMismatch"
       /\ drvRet.val = 0
       /\ Cardinality(Reads) = 1
       /\ \A i \in DOMAIN drvLog : drvLog[i].cmd # WRITE_SCRATCHPAD
       /\ Len(drvLog) = 1

\* set_resolution met bytes with a wrong CRC
C23_Witness ==
    /\ drvOp = "set_resolution"
    /\ BadReads = {1}
    /\ drvRet.err = "CrcMismatch"

\* The call read the scratchpad bytes as the device holds them
CleanRead ==
    /\ Len(drvLog) = 1
    /\ Reads = {1}
    /\ drvLog[1].err = "Ok"
    /\ drvLog[1].crcOk

\* C24: a set_resolution(R) that returned Ok, followed by resolution(),
\* makes resolution() return R; and when the configuration byte read is
\* none of the four patterns, resolution() and read_data() return
\* UnexpectedResponse.
C24_SetThenReadRoundTrip ==
    /\ (drvOp = "resolution" /\ drvPrev # "None" /\ CleanRead) =>
          drvRet.ok /\ drvRet.val = drvPrev
    /\ (drvOp \in {"resolution", "read_data"} /\ CleanRead
           /\ drvLog[1].bytes[5] \notin {31, 63, 95, 127}) =>
          ~drvRet.ok /\ drvRet.err = "UnexpectedResponse"

\* resolution() right after set_resolution(Bits10) on a device that had
\* another configuration byte at first
C24_Witness ==
    /\ drvOp = "resolution"
    /\ drvPrev = "Bits10"
    /\ CleanRead
    /\ drvRet.ok
    /\ drvRet.val = "Bits10"

\* The nine bytes the last transaction of the call read
BytesRead == drvLog[Len(drvLog)].bytes

\* The low bits of byte 0 that read_data clears
LowBitsCleared ==
    CASE BytesRead[5] = 31 -> 3 [] BytesRead[5] = 63 -> 2
      [] BytesRead[5] = 95 -> 1 [] OTHER -> 0

\* Bytes 1 and 0 as an unsigned word, with the low bits of byte 0 cleared
MaskedWord ==
    BytesRead[2] * 256 + BytesRead[1] - (BytesRead[1] % Pow2(LowBitsCleared))

\* C27: read_data returns the sign-extended 16-bit two's-complement value of
\* scratchpad bytes 1 and 0 with the low 3, 2, 1 or 0 bits of byte 0
\* cleared; [0x50, 0x05] at 12 bits is 85.0 degrees (1360 sixteenths) and
\* [0x91, 0xFF] is negative (-6.9375 degrees, -111 sixteenths, at 12 bits).
C27_ReadDataDecodes ==
    (drvOp = "read_data" /\ drvRet.ok) =>
       /\ drvRet.val \in -32768..32767
       /\ (drvRet.val - MaskedWord) % 65536 = 0
       /\ (BytesRead[1] = 80 /\ BytesRead[2] = 5 /\ BytesRead[5] = 127) =>
             drvRet.val = 85 * 16
       /\ (BytesRead[1] = 145 /\ BytesRead[2] = 255) => drvRet.val < 0
       /\ (BytesRead[1] = 145 /\ BytesRead[2] = 255 /\ BytesRead[5] = 127) =>
             drvRet.val * 10000 = -69375 * 16

\* read_data decoded [0x91, 0xFF] at 9 bits: byte 0 becomes 0x90
C27_Witness ==
    /\ drvOp = "read_data"
    /\ drvRet.ok
    /\ drvRet.val = -112
    /\ BytesRead[1] = 145 /\ BytesRead[2] = 255 /\ BytesRead[5] = 31

\* The first step of measure() went through: resolution() returned Ok
ResolutionRead ==
    /\ Len(drvLog) >= 1
    /\ drvLog[1].err = "Ok"
    /\ drvLog[1].crcOk
    /\ pad[5] \in {31, 63, 95, 127}

\* C26: in measure() the scratchpad read that supplies the temperature comes
\* after CONVERT_T and after a suspension of at least conversion_time(R)
\* milliseconds, R being the resolution configured in the device; when an
\* earlier step fails, its error is returned and neither the wait nor the
\* read takes place.
C26_MeasureWaitsForConversion ==
    (drvOp = "measure" /\ ~drvWait) =>
       /\ drvLog[1].cmd = READ_SCRATCHPAD
       /\ ~ResolutionRead =>
             /\ Len(drvLog) = 1
             /\ ~drvRet.ok
             /\ drvRet.err = (IF drvLog[1].err # "Ok" THEN drvLog[1].err
                              ELSE IF ~drvLog[1].crcOk THEN "CrcMismatch"
                              ELSE "UnexpectedResponse")
       /\ ResolutionRead =>
             /\ Len(drvLog) >= 2
             /\ drvLog[2].cmd = CONVERT_T
             /\ drvLog[2].err # "Ok" =>
                   Len(drvLog) = 2 /\ ~drvRet.ok /\ drvRet.err = drvLog[2].err
             /\ drvLog[2].err = "Ok" =>
                   /\ Len(drvLog) = 4
                   /\ drvLog[3].cmd = 0
                   /\ drvLog[3].ms >= ConversionTime(FromConfigRegister(pad[5]))
                   /\ drvLog[4].cmd = READ_SCRATCHPAD
                   /\ padNext = <<>>
       /\ drvRet.ok => Len(drvLog) = 4

\* measure() returned a temperature from a 12-bit device, 750 ms or more
\* after CONVERT_T
C26_Witness ==
    /\ drvOp = "measure"
    /\ ~drvWait
    /\ drvRet.ok
    /\ pad[5] = 127
    /\ Len(drvLog) = 4
    /\ drvLog[3].ms >= 750

(***************************************************************************)
(* Properties of the control loop, cycle by cycle.                         *)
(***************************************************************************)

\* C28: the control loop calls measure() at most once per period; in a cycle
\* whose measure() fails it does not call measure() again before the next
\* deadline, does not write the cooler pin (the pin changes only when the
\* terminal's cooler command sets it) and sends no temperature.
C28_FailedCycleLeavesActuator ==
    /\ [](cyc.measures <= 1)
    /\ [](cyc.failed => cyc.measures = 1 /\ cyc.writes = 0 /\ cyc.sent = 0)
    /\ [][(cyc'.failed /\ cooler' # cooler) => TermCooler]_vars

\* A cycle whose measure() failed after the conversion wait has reached its
\* deadline with the cooler on, as the cycle before left it
C28_Witness ==
    /\ cyc.failed
    /\ cyc.measures = 1
    /\ ctlPc = "wait"
    /\ cycle = MaxCycles
    /\ cooler
    /\ Len(cycErrors) = 1
    /\ cycErrors[1] = "CrcMismatch"

(***************************************************************************)
(* The console input.  usart2 (priority 1) pushes each byte received into  *)
(* the buffer and spawns terminal (priority 2), which takes the buffer     *)
(* apart line by line; watch_temps clears it after each temperature.  The  *)
(* bytes are 's' and newline.                                              *)
(***************************************************************************)
BUFFER_SIZE == 32

\* Bytes usart2 may fail to push, and newlines received, in one run
MaxDropped == 2
MaxNewlines == 2

ConsoleBytes == {"s", "nl"}

\* terminal.rs is_newline
IsNewline(b) == b = "nl"

\* usart2: if buffer.push_back(b).is_err() { error!("Buffer overflow"); }
\* logs and goes on
OverflowPanics(full) == FALSE

\* heapless Deque::push_back: Err(b) when the deque is full
PushBack(buf, b) == IF Len(buf) < BUFFER_SIZE THEN Append(buf, b) ELSE buf

\* get_line: the position of the first newline, 0 when there is none
NewlineAt(buf) ==
    IF \E i \in DOMAIN buf : IsNewline(buf[i])
    THEN CHOOSE i \in DOMAIN buf :
            IsNewline(buf[i]) /\ \A j \in 1..(i - 1) : ~IsNewline(buf[j])
    ELSE 0

\* get_line: the buffer once the first line is popped from its front
AfterLine(buf) == SubSeq(buf, NewlineAt(buf) + 1, Len(buf))

notConsole ==
    <<devices, lineStuckLow, searchVars, appVars, wireVars, schedVars, roundVars,
      sensorVars, pidVars,
      storeVars>>

ConsoleInit ==
    /\ StoreIdle
    /\ appPc = "off" /\ AppFresh
    /\ busTime = 0
    /\ devices = {}
    /\ lineStuckLow = FALSE
    /\ SearchIdle
    /\ WireIdle
    /\ SchedIdle
    /\ RoundIdle
    /\ SensorIdle
    /\ ConsoleIdle
    /\ PidIdle

\* usart2 with one byte in the receiver.  terminal, of higher priority,
\* runs at once when it is spawned, so usart2 runs only while terminal is
\* idle or suspended.
Usart2 ==
    /\ ~halted
    /\ conPc \in {"idle", "watching"}
    /\ \E b \in ConsoleBytes :
          /\ IsNewline(b) => newlines < MaxNewlines
          /\ Len(buffer) = BUFFER_SIZE => dropped < MaxDropped
          /\ buffer' = PushBack(buffer, b)
          /\ dropped' = IF Len(buffer) = BUFFER_SIZE THEN dropped + 1 ELSE dropped
          /\ newlines' = IF IsNewline(b) THEN newlines + 1 ELSE newlines
          /\ halted' = OverflowPanics(Len(buffer) = BUFFER_SIZE)
          /\ conPc' = IF OverflowPanics(Len(buffer) = BUFFER_SIZE) THEN conPc
                      ELSE IF conPc = "idle" THEN "spawned" ELSE conPc
    /\ UNCHANGED <<linesRead, notConsole>>

\* terminal: one turn of its loop.  Without a line it returns; a line is a
\* command that prints and goes on, "watch temps", or one whose UART write
\* fails, which panics.
Terminal ==
    /\ ~halted
    /\ conPc \in {"spawned", "running"}
    /\ IF NewlineAt(buffer) = 0
       THEN /\ conPc' = "idle"
            /\ UNCHANGED <<buffer, halted, linesRead>>
       ELSE /\ buffer' = AfterLine(buffer)
            /\ linesRead' = linesRead + 1
            /\ \E cmd \in {"print", "watch", "uart_fails"} :
                  /\ conPc' = IF cmd = "watch" THEN "watching" ELSE "running"
                  /\ halted' = (cmd = "uart_fails")
    /\ UNCHANGED <<dropped, newlines, notConsole>>

\* watch_temps: a temperature arrives; the buffer is searched for 's' and
\* cleared
WatchRecv ==
    /\ ~halted
    /\ conPc = "watching"
    /\ conPc' = IF \E i \in DOMAIN buffer : buffer[i] = "s" THEN "running"
                ELSE "watching"
    /\ buffer' = <<>>
    /\ UNCHANGED <<dropped, newlines, halted, linesRead, notConsole>>

ConsoleNext == Usart2 \/ Terminal \/ WatchRecv

SpecConsole == ConsoleInit /\ [][ConsoleNext]_vars

\* terminal, of priority 2, runs once it is spawned, and watch_temps is
\* sent a temperature every cycle
FairSpecConsole ==
    /\ SpecConsole
    /\ WF_vars(Terminal)
    /\ WF_vars(WatchRecv)

\* C29: a byte received while the console buffer holds 32 bytes is fatal: the
\* system halts.
C29_OverflowIsFatal == dropped > 0 => halted

\* usart2 has dropped a byte of a full buffer and the system runs on
C29_Dropped ==
    /\ dropped = 1
    /\ Len(buffer) = BUFFER_SIZE
    /\ ~halted

(***************************************************************************)
(* The controller.  Temperatures are I28F4 values, written as their bits   *)
(* (1/16 degree).  PidController::run hands the temperature to             *)
(* Pid::next_control_output of the pid crate and maps the output from      *)
(* (-128, 128) to a u8.  temp_controller_inner tests that u8 as the        *)
(* condition of an if; the threshold from which the test holds is fixed    *)
(* at the start and is one of OnThresholds.                                *)
(***************************************************************************)
TARGET_TEMP == 80
KP == 16
KI == 4
KD == 2
\* PidController::new: const LIMIT, in degrees
LIMIT == 128

\* I28F4 from an integer
FromInt(n) == n * 16

\* I28F4 multiplication: the product of the bits, shifted right by 4
FixMul(a, b) == (a * b) \div 16

\* pid crate apply_limit: clamp to [-limit, limit]
ApplyLimit(limit, value) ==
    IF value > limit THEN limit ELSE IF value < -limit THEN -limit ELSE value

\* Pid::next_control_output: let error = self.setpoint - measurement
PidError(temp) == TARGET_TEMP - temp

\* Pid::next_control_output: the new integral term and the output
NextControlOutput(integral, prev, temp) ==
    LET error == PidError(temp)
        p == ApplyLimit(FromInt(LIMIT), FixMul(error, KP))
        i == ApplyLimit(FromInt(LIMIT), integral + FixMul(error, KI))
        d == ApplyLimit(FromInt(LIMIT),
                        -FixMul(IF prev = <<>> THEN 0 ELSE temp - prev[1], KD))
    IN  [integral |-> i, output |-> ApplyLimit(FromInt(LIMIT), p + i + d)]

\* saturating_add(128).saturating_to_num::<u8>()
ToU8(output) ==
    LET n == (output + FromInt(128)) \div 16
    IN  IF n > 255 THEN 255 ELSE IF n < 0 THEN 0 ELSE n

\* The readings of "if cooler_on" on a u8: any output but 0, the upper half
\* of the range, or 255 only
OnThresholds == {1, 128, 255}

\* The temperatures of the scenario: 4.0 and 10.0 degrees
ScenarioTemps == {FromInt(4), FromInt(10)}

notPid ==
    <<devices, lineStuckLow, searchVars, appVars, wireVars, schedVars, roundVars,
      sensorVars, consoleVars,
      storeVars>>

PidInit ==
    /\ StoreIdle
    /\ appPc = "off" /\ AppFresh
    /\ busTime = 0
    /\ devices = {}
    /\ lineStuckLow = FALSE
    /\ SearchIdle
    /\ WireIdle
    /\ SchedIdle
    /\ RoundIdle
    /\ SensorIdle
    /\ ConsoleIdle
    /\ integral_term = 0
    /\ prev_measurement = <<>>
    /\ pidTemp = <<>>
    /\ pidOut = 0
    /\ onFrom \in OnThresholds
    /\ pinHigh = FALSE

\* One cycle of temp_controller_inner after a measurement: pid.run(temp),
\* then the cooler pin
PidCycle ==
    /\ \E temp \in ScenarioTemps :
          \E c \in {NextControlOutput(integral_term, prev_measurement, temp)} :
             /\ integral_term' = c.integral
             /\ prev_measurement' = <<temp>>
             /\ pidTemp' = <<temp>>
             /\ pidOut' = ToU8(c.output)
             /\ pinHigh' = (ToU8(c.output) >= onFrom)
    /\ UNCHANGED <<onFrom, notPid>>

PidNext == PidCycle

SpecPid == PidInit /\ [][PidNext]_vars

\* The controller has settled on the temperature: another cycle at the same
\* temperature leaves its state and its output as they are
Converged ==
    /\ pidTemp # <<>>
    /\ NextControlOutput(integral_term, prev_measurement, pidTemp[1]).integral
          = integral_term
    /\ ToU8(NextControlOutput(integral_term, prev_measurement, pidTemp[1]).output)
          = pidOut

\* C30: with target 5.0 and the configured gains a cycle that measures 10.0
\* sets the cooler pin high, and once the loop has converged a cycle that
\* measures 4.0 sets it low.
C30_ScenarioCommands ==
    /\ pidTemp = <<FromInt(10)>> => pinHigh
    /\ (pidTemp = <<FromInt(4)>> /\ Converged) => ~pinHigh

\* The loop has converged at 4.0 degrees: the output is 255 and the pin is
\* high whatever the threshold
C30_ColdConvergedIsOn ==
    /\ pidTemp = <<FromInt(4)>>
    /\ Converged
    /\ pidOut = 255
    /\ pinHigh
    /\ onFrom = 255

(***************************************************************************)
(* The storage task (priority 1), poll by poll.  temp_controller           *)
(* (priority 2) reaches a send().await at any point between two steps of   *)
(* storage, the closure of storage.lock excepted (the ceiling of storage   *)
(* is 2); watch_temps takes from the console channel.  Storage is          *)
(* Storage<N, E>: N is 100 in main.rs, and 1 and 2 make the history wrap.  *)
(***************************************************************************)
\* Messages temp_controller sends in one run
MaxSent == 3

\* 4.0625 and 85.0 degrees, in 1/16 degree
StoreTemps == {65, 1360}

StoreErrors == {"Timeout"}

StorageSizes == {1, 2, TEMPS_CAPACITY}

StorageWriteNWhenRoom(n, history, ch, temp, t) ==
    [temps |-> IF Len(ch) < CHAN_SIZE
               THEN HistoryWrite(history, StoredTempNow(temp, t), n)
               ELSE history,
     tx |-> TrySend(ch, StoredTempNow(temp, t), CHAN_SIZE)]

\* Storage::write for Storage<n, E>
StorageWriteN(n, history, ch, temp, t) ==
    [temps |-> HistoryWrite(history, StoredTempNow(temp, t), n),
     tx |-> TrySend(ch, StoredTempNow(temp, t), CHAN_SIZE)]

\* HistoryBuffer::recent
Recent(buf) == IF buf = <<>> THEN <<>> ELSE <<buf[Len(buf)]>>

DropRecvTakes(ch) == IF ch = <<>> THEN ch ELSE Tail(ch)

\* A recv() future that has not completed is dropped: it holds no message,
\* the channel keeps what it has
DropRecv(ch) == ch

notStore ==
    <<devices, lineStuckLow, searchVars, appVars, wireVars, schedVars, roundVars,
      sensorVars, consoleVars, pidVars>>

\* After init: the channels are empty and storage is spawned (main.rs:159)
StoreInit ==
    /\ appPc = "off" /\ AppFresh
    /\ busTime = 0
    /\ devices = {}
    /\ lineStuckLow = FALSE
    /\ SearchIdle
    /\ WireIdle /\ SchedIdle /\ RoundIdle /\ SensorIdle /\ ConsoleIdle /\ PidIdle
    /\ tCh = <<>> /\ eCh = <<>> /\ cCh = <<>>
    /\ hN \in StorageSizes
    /\ hTemps = <<>> /\ hEvents = <<>>
    /\ stPc = "suspended"
    /\ sGot = <<>>
    /\ sPend = TRUE
    /\ tWaker = FALSE /\ eWaker = FALSE
    /\ sndWait = <<>>
    /\ sndReady = FALSE
    /\ tSent = <<>> /\ eSent = <<>>
    /\ tWritten = <<>> /\ eWritten = <<>>
    /\ sClock = 0

\* The channel of message m has a free slot
HasRoom(m) ==
    IF m.kind = "temp" THEN Len(tCh) < TEMP_CHAN_SIZE
    ELSE Len(eCh) < EVENT_CHAN_SIZE

\* Sender::send once it has a slot: the message is queued and the
\* receiver's waker, if the channel holds one, is woken
Deliver(m) ==
    IF m.kind = "temp"
    THEN /\ tCh' = Append(tCh, m.val)
         /\ tSent' = Append(tSent, m.val)
         /\ sPend' = (sPend \/ tWaker)
         /\ tWaker' = FALSE
         /\ UNCHANGED <<eCh, eSent, eWaker>>
    ELSE /\ eCh' = Append(eCh, m.val)
         /\ eSent' = Append(eSent, m.val)
         /\ sPend' = (sPend \/ eWaker)
         /\ eWaker' = FALSE
         /\ UNCHANGED <<tCh, tSent, tWaker>>

\* send(m).await: m goes into its channel, or the task is suspended with it
SendAwait(m) ==
    /\ sndWait = <<>>
    /\ Len(tSent) + Len(eSent) < MaxSent
    /\ IF HasRoom(m)
       THEN /\ Deliver(m)
            /\ sndWait' = <<>>
       ELSE /\ sndWait' = <<m>>
            /\ UNCHANGED <<tCh, eCh, tSent, eSent, sPend, tWaker, eWaker>>
    /\ sndReady' = FALSE

\* temp_controller_inner: tx.send(temp).await, one cycle after the last
SendTemp ==
    /\ \E v \in StoreTemps : SendAwait([kind |-> "temp", val |-> v])
    /\ sClock' = sClock + PERIOD_MS
    /\ UNCHANGED <<cCh, hN, hTemps, hEvents, stPc, sGot, tWritten, eWritten,
                   notStore>>

\* temp_controller: e_tx.send(event).await
SendErrorEvent ==
    /\ \E e \in StoreErrors :
          SendAwait([kind |-> "event", val |-> ErrorEvent(e, sClock)])
    /\ UNCHANGED <<cCh, hN, hTemps, hEvents, stPc, sGot, tWritten, eWritten,
                   sClock, notStore>>

\* The suspended send goes on once the receiver has freed a slot and woken
\* it
SendResume ==
    /\ sndReady
    /\ sndWait # <<>>
    /\ Deliver(sndWait[1])
    /\ sndWait' = <<>>
    /\ sndReady' = FALSE
    /\ UNCHANGED <<cCh, hN, hTemps, hEvents, stPc, sGot, tWritten, eWritten,
                   sClock, notStore>>

\* try_recv took a message of this kind: a sender waiting for the channel
\* is woken
WakesSender(kind) == sndWait # <<>> /\ sndWait[1].kind = kind

\* The executor polls storage: its pending flag is taken
StorageDispatch ==
    /\ ~sndReady
    /\ stPc = "suspended"
    /\ sPend
    /\ sPend' = FALSE
    /\ stPc' = "poll_t"
    /\ UNCHANGED <<tCh, eCh, cCh, hN, hTemps, hEvents, sGot, tWaker, eWaker,
                   sndWait, sndReady, tSent, eSent, tWritten, eWritten, sClock,
                   notStore>>

\* try_select polls t_fut, rx.recv(): the waker is registered, then
\* try_recv; with a temperature try_select is done and e_fut is dropped
StoragePollTemp ==
    /\ ~sndReady
    /\ stPc = "poll_t"
    /\ tWaker' = TRUE
    /\ IF tCh # <<>>
       THEN /\ sGot' = <<[kind |-> "temp", val |-> Head(tCh)]>>
            /\ tCh' = Tail(tCh)
            /\ sndReady' = WakesSender("temp")
            /\ eCh' = DropRecv(eCh)
            /\ stPc' = "write_t"
       ELSE /\ stPc' = "poll_e"
            /\ UNCHANGED <<sGot, tCh, eCh, sndReady>>
    /\ UNCHANGED <<cCh, hN, hTemps, hEvents, sPend, eWaker, sndWait, tSent,
                   eSent, tWritten, eWritten, sClock, notStore>>

\* try_select polls e_fut, e_rx.recv(); with an event t_fut is dropped,
\* without one storage is suspended
StoragePollEvent ==
    /\ ~sndReady
    /\ stPc = "poll_e"
    /\ eWaker' = TRUE
    /\ IF eCh # <<>>
       THEN /\ sGot' = <<[kind |-> "event", val |-> Head(eCh)]>>
            /\ eCh' = Tail(eCh)
            /\ sndReady' = WakesSender("event")
            /\ tCh' = DropRecv(tCh)
            /\ stPc' = "write_e"
       ELSE /\ stPc' = "suspended"
            /\ UNCHANGED <<sGot, tCh, eCh, sndReady>>
    /\ UNCHANGED <<cCh, hN, hTemps, hEvents, sPend, tWaker, sndWait, tSent,
                   eSent, tWritten, eWritten, sClock, notStore>>

\* Ok(Either::Left((temp, _))): storage.lock(|storage| storage.write(temp)),
\* then the loop polls a new try_select
StorageWriteTemp ==
    /\ ~sndReady
    /\ stPc = "write_t"
    /\ \E out \in {StorageWriteN(hN, hTemps, cCh, sGot[1].val, sClock)} :
          /\ hTemps' = out.temps
          /\ cCh' = out.tx
    /\ tWritten' = Append(tWritten, [temp |-> sGot[1].val, at |-> sClock,
                                     full |-> Len(cCh) >= CHAN_SIZE])
    /\ sGot' = <<>>
    /\ stPc' = "poll_t"
    /\ UNCHANGED <<tCh, eCh, hN, hEvents, sPend, tWaker, eWaker, sndWait,
                   sndReady, tSent, eSent, eWritten, sClock, notStore>>

\* Ok(Either::Right((event, _))): storage.write_event(event) under the lock
StorageWriteEvt ==
    /\ ~sndReady
    /\ stPc = "write_e"
    /\ hEvents' = StorageWriteEvent(hEvents, sGot[1].val)
    /\ eWritten' = Append(eWritten, sGot[1].val)
    /\ sGot' = <<>>
    /\ stPc' = "poll_t"
    /\ UNCHANGED <<tCh, eCh, cCh, hN, hTemps, sPend, tWaker, eWaker, sndWait,
                   sndReady, tSent, eSent, tWritten, sClock, notStore>>

\* watch_temps: rx.recv() takes the temperature Storage::write passed on
WatchTake ==
    /\ cCh # <<>>
    /\ cCh' = Tail(cCh)
    /\ UNCHANGED <<tCh, eCh, hN, hTemps, hEvents, stPc, sGot, sPend, tWaker,
                   eWaker, sndWait, sndReady, tSent, eSent, tWritten, eWritten,
                   sClock, notStore>>

StoreNext ==
    \/ SendTemp
    \/ SendErrorEvent
    \/ SendResume
    \/ StorageDispatch
    \/ StoragePollTemp
    \/ StoragePollEvent
    \/ StorageWriteTemp
    \/ StorageWriteEvt
    \/ WatchTake

SpecStore == StoreInit /\ [][StoreNext]_vars

\* The application's storage: Storage<100, 16> (main.rs:66)
AppStoreInit == StoreInit /\ hN = TEMPS_CAPACITY

\* storage is polled when it is pending and runs on from poll to poll; a
\* woken sender of priority 2 runs at once
FairSpecStore ==
    /\ AppStoreInit
    /\ [][StoreNext]_vars
    /\ WF_vars(SendResume)
    /\ WF_vars(StorageDispatch)
    /\ WF_vars(StoragePollTemp)
    /\ WF_vars(StoragePollEvent)
    /\ WF_vars(StorageWriteTemp)
    /\ WF_vars(StorageWriteEvt)

(***************************************************************************)
(* Properties of the storage task.                                         *)
(***************************************************************************)
\* What try_select has returned and storage has not yet written
GotOf(kind) ==
    IF sGot # <<>> /\ sGot[1].kind = kind THEN <<sGot[1].val>> ELSE <<>>

\* The temperatures passed to Storage::write, in order
WrittenTemps == [i \in DOMAIN tWritten |-> tWritten[i].temp]

\* C31: every temperature the control loop sends is written to storage by
\* the storage task exactly once and in the order sent, and no event is lost
\* or duplicated either: at every instant the temperatures sent are the ones
\* written, then the one try_select returned, then the one in the channel,
\* likewise the events, and the k-th temperature sent is eventually the
\* k-th written.
C31_EveryTemperatureIsStoredOnce ==
    /\ [](tSent = WrittenTemps \o GotOf("temp") \o tCh)
    /\ [](eSent = eWritten \o GotOf("event") \o eCh)
    /\ \A k \in 1..MaxSent : (Len(tSent) >= k) ~> (Len(tWritten) >= k)

\* try_select has returned an event and dropped t_fut while the channel
\* holds a temperature sent after t_fut was polled; one temperature is
\* written already
C31_Witness ==
    /\ stPc = "write_e"
    /\ tCh # <<>>
    /\ Len(tWritten) = 1
    /\ tSent = WrittenTemps \o tCh

\* The record the i-th call of Storage::write made of its temperature:
\* StoredTemp::now_from_temp, seconds and the temperature as I6F2
Stored(i) == StoredTempNow(tWritten[i].temp, tWritten[i].at)

\* How many records the history holds after the writes so far
Kept == Min(Len(tWritten), hN)

\* C33: Storage::write never blocks and appends to the history whether the
\* console channel is empty or full: the step that leaves the call has
\* appended the record, after n writes the history holds the records of the
\* most recent min(n, N) writes in write order, and temp_recent() is the
\* record of the last write.
C33_WriteAlwaysAppends ==
    /\ [](hTemps = [i \in 1..Kept |-> Stored(Len(tWritten) - Kept + i)])
    /\ [](Recent(hTemps)
            = IF tWritten = <<>> THEN <<>> ELSE <<Stored(Len(tWritten))>>)
    /\ [][stPc = "write_t" /\ stPc' # "write_t"
            => /\ tWritten' = Append(tWritten, [temp |-> sGot[1].val,
                                                at |-> sClock,
                                                full |-> Len(cCh) >= CHAN_SIZE])
               /\ Recent(hTemps') = <<StoredTempNow(sGot[1].val, sClock)>>
               /\ stPc' = "poll_t"]_vars

\* Three writes into Storage<2, E>, the first with the console channel
\* empty, the third with it full: the history has wrapped
C33_Witness ==
    /\ hN = 2
    /\ Len(tWritten) = 3
    /\ ~tWritten[1].full
    /\ tWritten[3].full
    /\ Len(hTemps) = 2
    /\ hTemps[1] # hTemps[2]

(***************************************************************************)
(* The bus traffic of one search().                                        *)
(***************************************************************************)
\* The last call of search() has returned an address
ReturnedAddress == ~lpIn /\ result.kind = "Some" /\ lp.id_bit_number >= 65

\* The three operations of round n (1..64) in the log of the call
RoundOf(n) == SubSeq(lpBus, 3 * n, 3 * n + 2)

\* C32: a search() call that returns an address has made on the bus the
\* reset, the SEARCH command byte and then exactly 64 rounds of read_bit,
\* read_bit, write_bit in this order and nothing else, and bit n-1 of the
\* u64 returned (bit 0 the least-significant bit of byte 0) is the bit
\* written in round n.
C32_SixtyFourRoundsSpellTheAddress ==
    ReturnedAddress =>
        /\ Len(lpBus) = 2 + 3 * 64
        /\ lpBus[1] = BusOp("reset", 0, "Ok")
        /\ lpBus[2] = BusOp("write_byte", SEARCH_NORMAL, "Ok")
        /\ \A n \in 1..64 :
              /\ RoundOf(n)[1].op = "read_bit"
              /\ RoundOf(n)[2].op = "read_bit"
              /\ RoundOf(n)[3] =
                    BusOp("write_bit",
                          BitArg(U64Bit(AddressOf(result), n - 1)), "Ok")

\* One of three devices was returned whose address has a 1 in bit 8
\* (round 9), a 0 in bit 62 and a 1 in bit 63
C32_Witness ==
    /\ ReturnedAddress
    /\ Cardinality(devices) = 3
    /\ RoundOf(9)[3].arg = 1
    /\ RoundOf(63)[3].arg = 0
    /\ RoundOf(64)[3].arg = 1

(***************************************************************************)
(* The frame of set_resolution.                                            *)
(***************************************************************************)
\* A step that ends with drvOp = "set_resolution" and leaves the pending
\* conversion alone is a call of set_resolution.
\* C34: a successful set_resolution has read the scratchpad, then written
\* three bytes: the alarm bytes TH and TL as just read, then the
\* configuration byte of the resolution asked for; the device's scratchpad
\* afterwards differs from the one before in the configuration byte only.
C34_SetResolutionKeepsAlarms ==
    [][(drvOp' = "set_resolution" /\ padNext' = padNext /\ drvRet'.ok) =>
          /\ Len(drvLog') = 2
          /\ drvLog'[1].cmd = READ_SCRATCHPAD
          /\ drvLog'[2].cmd = WRITE_SCRATCHPAD
          /\ drvLog'[2].bytes = <<drvLog'[1].bytes[3], drvLog'[1].bytes[4],
                                  ToConfigRegister(drvArg')>>
          /\ pad'[3] = pad[3]
          /\ pad'[4] = pad[4]
          /\ pad' = [pad EXCEPT ![5] = ToConfigRegister(drvArg')]]_vars

\* set_resolution(Bits9) has succeeded on a device whose alarm bytes are 125
\* and -55 and whose configuration byte named another resolution
C34_Witness ==
    /\ drvOp = "set_resolution"
    /\ drvRet.ok
    /\ drvArg = "Bits9"
    /\ Len(drvLog) = 2
    /\ drvLog[1].bytes[5] = 127
    /\ drvLog[2].bytes = <<125, 201, 31>>
    /\ pad[3] = 125 /\ pad[4] = 201 /\ pad[5] = 31

(***************************************************************************)
(* The way of a newline through the console.                               *)
(***************************************************************************)
\* C35: every newline byte usart2 receives is placed in the input buffer,
\* and is eventually removed from it by get_line as the end of a line: the
\* step that receives the k-th newline appends it to the buffer, and
\* eventually get_line has returned k lines.
C35_EveryNewlineEndsALine ==
    /\ [][newlines' = newlines + 1 => buffer' = Append(buffer, "nl")]_vars
    /\ \A k \in 1..MaxNewlines : (newlines >= k) ~> (linesRead >= k)

\* A newline has been received and dropped: the buffer holds 32 bytes and no
\* newline, terminal has returned and no line has ever been read
C35_NewlineDropped ==
    /\ newlines = 1
    /\ linesRead = 0
    /\ dropped >= 1
    /\ Len(buffer) = BUFFER_SIZE
    /\ NewlineAt(buffer) = 0
    /\ conPc = "idle"
    /\ ~halted

====
